---- MODULE Spec2Model ----
(***************************************************************************)
(* pg-transit: a PostgreSQL-backed message broker.                         *)
(*                                                                         *)
(* The model holds the rows of the tables pg_transit_messages,             *)
(* pg_transit_subscriptions and pg_transit_subscription_messages of one    *)
(* topic, the SubscriptionMessage objects the consumers hold in memory,    *)
(* and a discrete clock.  Timestamps are clock values; one clock unit is   *)
(* the granularity of every delay and timeout.                             *)
(*                                                                         *)
(* Under Spec every database transaction of the code is one action (the   *)
(* row locks the transactions take make them serialisable with respect to  *)
(* one another).  The statement-level specifications below split the       *)
(* transactions whose statements can interleave with other sessions.       *)
(***************************************************************************)
EXTENDS Integers, Sequences, FiniteSets, TLC

\* ------------------------------------------------------------------ bounds

\* Messages ever sent (ids 1..MaxMessages are handed out in send order).
MaxMessages == 2
\* The clock stops at MaxTime.
MaxTime == 2
\* Manual retry() calls per subscription-message.
MaxRetries == 1
\* Largest count passed to getNextMessages (the concurrency of a consumer).
MaxCount == 2
\* Priorities are 1..MaxPriority, or none.
MaxPriority == 2
\* Largest finite maxMessagesRetention of the topic.
MaxRetention == 1
MaxLoops == 2

\* ---------------------------------------------------------------- constants

\* SQL NULL / JavaScript undefined for a timestamp, a priority or a delay.
NULL == -1

\* staleMessageTimeoutInMs, in clock units.
StaleTimeout == 1

\* maxMessagesRetention: Infinity, which disables trim.
Infinity == -2

Consumers == {"c1", "c2"}

\* The sessions that send messages.
Writers == {"w1", "w2"}

\* The subscription names of the topic; a subscription's id is its name.
SubNames == {"s1", "s2"}

\* The processes that run a PgTransit instance against the database.
Processes == {"p1", "p2"}

\* The names of the scheduled messages of the topic.
ScheduleNames == {"job"}

\* The background operations of the broker, each run by a loop.
Operations == {"trimTopics", "resetStaleMessages", "processScheduledMessages"}

\* The topics of the broker.
Topics == {"t1", "t2"}

\* No Subscription object has been built.
NoHandle == [id |-> NULL]

\* close() has not been called.
Open == [stage |-> "open"]

\* A session with no operation in flight.
Idle == [stage |-> "idle"]

VARIABLES
  now,            \* the wall clock (Date.now())
  nextId,         \* the next time-ordered message id (uuid v7)
  messages,       \* pg_transit_messages: id -> [priority, deliver_at]
  subs,           \* pg_transit_subscriptions: id -> row
  rows,           \* pg_transit_subscription_messages: <<sub, msg>> -> row
  held,           \* consumer -> the SubscriptionMessage objects it is processing
  writers,        \* writer -> its insertMessages transaction in flight
  creating,       \* subscription -> the progress of its constructor's init
  reserving,      \* consumer -> its getNextMessages transaction in flight
  completeCalls,  \* history: <<sub, msg>> -> complete() calls that set the row
  retryCalls,     \* history: <<sub, msg>> -> retry() calls that set the row
  atCommit,       \* history: msg -> the subscriptions when its insert committed
  atCreation,     \* history: sub -> the messages when its row was inserted
  schedules,      \* pg_transit_scheduled_messages: name -> row
  sweeps,         \* process -> its processScheduledMessages transaction in flight
  fired,          \* history: schedule name -> messages inserted for it
  concurrency,    \* consumer -> its concurrency (Consumer._concurrency)
  drains,         \* consumer -> the drains in progress (waitIdlePromise)
  calls,          \* consumer -> count -> the getNextMessages(count) calls pending
  started,        \* consumer -> its poll loop is running (Consumer._isStarted)
  operations,     \* background operation -> its promise in pendingPromises
  closing,        \* the progress of PgTransit.close()
  registry,       \* pg_transit_subscriptions of every topic: id -> row
  handle,         \* the Subscription object the last subscribe() built
  trimming,       \* the Topic.trim() transaction in flight
  loops,          \* consumer -> the poll loops its start() calls created
  stopCalls       \* consumer -> its stop() calls since the last start()

dbVars == <<nextId, messages, subs, rows>>

\* The multi-statement operations in flight.
sessionVars == <<writers, creating, reserving>>

historyVars == <<completeCalls, retryCalls, atCommit, atCreation>>

\* The scheduled messages and the scheduler.
schedulerVars == <<schedules, sweeps, fired>>

\* The runtime of the consumers: Consumer.consume.
consumerVars == <<concurrency, started, drains, calls>>

\* The shutdown of the broker: PgTransit.pendingPromises and close().
shutdownVars == <<operations, closing>>

\* The state of the broker outside the message lifecycle.
\* The subscriptions of all the topics and the objects built for them.
registryVars == <<registry, handle>>

retentionVars == <<trimming>>

loopVars == <<loops, stopCalls>>

brokerVars == <<schedulerVars, consumerVars, shutdownVars, registryVars, retentionVars, loopVars>>

\* The message lifecycle.
coreVars == <<now, dbVars, held, sessionVars, historyVars>>

vars == <<coreVars, brokerVars>>

\* ------------------------------------------------------------------ helpers

\* f with the keys in ks removed.
Without(f, ks) == [k \in DOMAIN f \ ks |-> f[k]]

\* f overridden (or extended) by g.
Upsert(f, g) == [k \in DOMAIN f \cup DOMAIN g |-> IF k \in DOMAIN g THEN g[k] ELSE f[k]]

RowsOf(s) == {k \in DOMAIN rows : k[1] = s}

Count(k, f) == IF k \in DOMAIN f THEN f[k] ELSE 0

Pow2(n) == IF n <= 0 THEN 1 ELSE 2 ^ n

Sequential(s) == s \in DOMAIN subs /\ subs[s].consumption_mode = "sequential"

\* The rows a getNextMessages transaction of consumer c holds locked: the rows
\* its SELECT ... FOR UPDATE returned, until it commits.
LockedRows(c) ==
  IF reserving[c].stage = "selected"
  THEN {<<reserving[c].sub, reserving[c].batch[i]>> : i \in 1..Len(reserving[c].batch)}
  ELSE {}

RowLocked(k) == \E c \in Consumers : k \in LockedRows(c)

\* The subscription row is locked by the gate check (SELECT processing ... FOR
\* UPDATE) of a getNextMessages transaction in flight on a sequential
\* subscription.
SubLocked(s) ==
  \E c \in Consumers :
    reserving[c].stage # "idle" /\ reserving[c].sub = s /\ Sequential(s)

\* ---------------------------------------------------------- message writer

\* insertMessages: the deliver_at of the batch.  deliverInMs is used when it is
\* truthy (neither undefined nor 0); an explicit deliverAt replaces it.
DeliverAt(deliverInMs, deliverAt) ==
  IF deliverAt # NULL THEN deliverAt
  ELSE IF deliverInMs # NULL /\ deliverInMs # 0 THEN now + deliverInMs
  ELSE NULL

\* A freshly inserted pg_transit_subscription_messages row (column defaults).
NewRow(availableAt) ==
  [status |-> "waiting", attempts |-> 0, available_at |-> availableAt,
   last_heartbeat_at |-> NULL, stale_count |-> 0, progress |-> NULL]

\* The fan-out INSERT ... SELECT: one row per (subscription in subIds, new id).
FanOutRows(subIds, ids, availableAt) ==
  [k \in subIds \X ids |-> NewRow(availableAt)]

\* The message rows of a batch of n payloads: ids in array order.
NewMessages(n, priority, deliverAt) ==
  [i \in nextId..(nextId + n - 1) |-> [priority |-> priority, deliver_at |-> deliverAt]]

\* Topic.send / Topic.sendBulk: insertMessages in one transaction.
InsertMessages(n, deliverInMs, deliverAt, priority) ==
  LET at == DeliverAt(deliverInMs, deliverAt)
      new == NewMessages(n, priority, at)
  IN /\ n >= 1
     /\ nextId + n - 1 <= MaxMessages
     /\ messages' = Upsert(messages, new)
     /\ rows' = Upsert(rows, FanOutRows(DOMAIN subs, DOMAIN new, at))
     /\ nextId' = nextId + n
     /\ atCommit' = Upsert(atCommit, [i \in DOMAIN new |-> DOMAIN subs])
     /\ UNCHANGED <<brokerVars, now, subs, held, sessionVars, completeCalls, retryCalls, atCreation>>

\* insertMessages, statement by statement.  The ids are generated and the
\* transaction inserts the message rows, which stay invisible to the other
\* sessions until the commit.
InsertBegin(w, n, deliverInMs, deliverAt, priority) ==
  LET at == DeliverAt(deliverInMs, deliverAt)
  IN /\ writers[w].stage = "idle"
     /\ n >= 1
     /\ nextId + n - 1 <= MaxMessages
     /\ writers' = [writers EXCEPT ![w] =
                      [stage |-> "messages", new |-> NewMessages(n, priority, at),
                       at |-> at, fanout |-> <<>>]]
     /\ nextId' = nextId + n
     /\ UNCHANGED <<brokerVars, now, messages, subs, rows, held, creating, reserving, historyVars>>

\* insertMessages: the fan-out INSERT ... SELECT reads the subscriptions that
\* are committed when the statement runs.
InsertFanOut(w) ==
  /\ writers[w].stage = "messages"
  /\ writers' = [writers EXCEPT ![w].stage = "fanout",
                                ![w].fanout = FanOutRows(DOMAIN subs, DOMAIN writers[w].new,
                                                         writers[w].at)]
  /\ UNCHANGED <<brokerVars, now, dbVars, held, creating, reserving, historyVars>>

\* insertMessages: COMMIT publishes the message rows and the fan-out rows.
InsertCommit(w) ==
  /\ writers[w].stage = "fanout"
  /\ messages' = Upsert(messages, writers[w].new)
  /\ rows' = Upsert(rows, writers[w].fanout)
  /\ atCommit' = Upsert(atCommit, [i \in DOMAIN writers[w].new |-> DOMAIN subs])
  /\ writers' = [writers EXCEPT ![w] = Idle]
  /\ UNCHANGED <<brokerVars, now, nextId, subs, held, creating, reserving,
                 completeCalls, retryCalls, atCreation>>

\* ------------------------------------------------------ reservation engine

\* Mutant of Before: among equal priorities the newest message comes first.
BeforeNewestFirst(a, b) ==
  LET pa == messages[a].priority
      pb == messages[b].priority
  IN IF pa = pb THEN a > b
     ELSE IF pa = NULL THEN FALSE
     ELSE IF pb = NULL THEN TRUE
     ELSE pa < pb

\* Mutant of Before: ORDER BY id alone.
BeforeById(a, b) == a < b

\* ORDER BY priority ASC NULLS LAST, id: a sorts before b.
Before(a, b) ==
  LET pa == messages[a].priority
      pb == messages[b].priority
  IN IF pa = pb THEN a < b
     ELSE IF pa = NULL THEN FALSE
     ELSE IF pb = NULL THEN TRUE
     ELSE pa < pb

\* Mutant of Available: available_at is not looked at.
AvailableWhenever(s) ==
  {k[2] : k \in {r \in RowsOf(s) : rows[r].status = "waiting"}}

\* WHERE subscription_id = s AND status = 'waiting'
\*   AND (available_at IS NULL OR available_at <= now)
Available(s) ==
  {k[2] : k \in {r \in RowsOf(s) :
      /\ rows[r].status = "waiting"
      /\ (rows[r].available_at = NULL \/ rows[r].available_at <= now)}}

\* The first element of a set of message ids in ORDER BY order.
First(S) == CHOOSE a \in S : \A b \in S \ {a} : Before(a, b)

\* ORDER BY ... LIMIT n over the set S, as the sequence of ids returned.
RECURSIVE Ordered(_, _)
Ordered(S, n) ==
  IF S = {} \/ n <= 0 THEN <<>>
  ELSE <<First(S)>> \o Ordered(S \ {First(S)}, n - 1)

\* LIMIT ${consumptionMode === 'sequential' ? 1 : count}
Limit(s, count) == IF subs[s].consumption_mode = "sequential" THEN 1 ELSE count

\* Mutant of SkipLocked: the query reads the rows without regard to locks.
NoSkipLocked(s, S) == S

\* FOR UPDATE SKIP LOCKED: the rows of S no other transaction holds locked.
SkipLocked(s, S) == {m \in S : ~RowLocked(<<s, m>>)}

\* The rows the reservation query returns, in order.
Candidates(s, count) == Ordered(SkipLocked(s, Available(s)), Limit(s, count))

\* Mutant of Reserved: the progress of the row is kept.
ReservedKeepingProgress(row) ==
  [row EXCEPT !.status = "processing", !.attempts = @ + 1, !.last_heartbeat_at = now]

\* The UPDATE of a reserved row.
Reserved(row) ==
  [row EXCEPT !.status = "processing", !.attempts = @ + 1, !.last_heartbeat_at = now,
              !.progress = NULL]

\* The SubscriptionMessage object getNextMessages returns for position i.
Handle(s, batch, i) ==
  [sub |-> s, msg |-> batch[i], attempts |-> rows[<<s, batch[i]>>].attempts + 1,
   idx |-> i, phase |-> "running"]

\* UPDATE pg_transit_subscriptions SET processing = TRUE (sequential only).
GateRaised(s) ==
  IF Sequential(s) THEN [subs EXCEPT ![s].processing = TRUE] ELSE subs

\* UPDATE pg_transit_subscription_messages ... WHERE message_id = ANY(ids).
ReservedRows(s, ids) ==
  [k \in DOMAIN rows |-> IF k[1] = s /\ k[2] \in ids THEN Reserved(rows[k]) ELSE rows[k]]

\* The SubscriptionMessage objects of a batch.
Returned(s, batch) == {Handle(s, batch, i) : i \in 1..Len(batch)}

\* Subscription.getNextMessages(count) called by consumer c, as one
\* transaction; the consumer starts the handler of every returned message.
GetNextMessages(c, s, count) ==
  /\ count > 0
  /\ s \in DOMAIN subs
  /\ reserving[c].stage = "idle"
  /\ ~SubLocked(s)
  /\ IF Sequential(s) /\ subs[s].processing
     THEN UNCHANGED vars
     ELSE LET batch == Candidates(s, count)
              ids == {batch[i] : i \in 1..Len(batch)}
          IN IF batch = <<>>
             THEN UNCHANGED vars
             ELSE /\ subs' = GateRaised(s)
                  /\ rows' = ReservedRows(s, ids)
                  /\ held' = [held EXCEPT ![c] = @ \cup Returned(s, batch)]
                  /\ UNCHANGED <<brokerVars, now, nextId, messages, sessionVars, historyVars>>

\* getNextMessages, statement by statement.  BEGIN and, on a sequential
\* subscription, the gate check SELECT processing ... FOR UPDATE, which waits
\* for the lock of the subscription row and returns [] when the gate is up.
ReserveBegin(c, s, count) ==
  /\ count > 0
  /\ s \in DOMAIN subs
  /\ reserving[c].stage = "idle"
  /\ ~SubLocked(s)
  /\ IF Sequential(s) /\ subs[s].processing
     THEN UNCHANGED vars
     ELSE /\ reserving' = [reserving EXCEPT ![c] =
                             [stage |-> "gate", sub |-> s, count |-> count, batch |-> <<>>]]
          /\ UNCHANGED <<brokerVars, now, dbVars, held, writers, creating, historyVars>>

\* getNextMessages: the SELECT ... FOR UPDATE SKIP LOCKED locks the rows it
\* returns; with no row the transaction ends and [] is returned.
ReserveSelect(c) ==
  /\ reserving[c].stage = "gate"
  /\ LET batch == Candidates(reserving[c].sub, reserving[c].count)
     IN reserving' = [reserving EXCEPT ![c] =
                        IF batch = <<>> THEN Idle
                        ELSE [@ EXCEPT !.stage = "selected", !.batch = batch]]
  /\ UNCHANGED <<brokerVars, now, dbVars, held, writers, creating, historyVars>>

\* getNextMessages: the two UPDATEs and the COMMIT, which releases the locks;
\* the consumer starts the handler of every returned message.
ReserveCommit(c) ==
  LET s == reserving[c].sub
      batch == reserving[c].batch
  IN /\ reserving[c].stage = "selected"
     /\ subs' = GateRaised(s)
     /\ rows' = ReservedRows(s, {batch[i] : i \in 1..Len(batch)})
     /\ held' = [held EXCEPT ![c] = @ \cup Returned(s, batch)]
     /\ reserving' = [reserving EXCEPT ![c] = Idle]
     /\ UNCHANGED <<brokerVars, now, nextId, messages, writers, creating, historyVars>>

\* ------------------------------------------------------------ consumer

\* Consumer.processMessage: the handler returns.
HandlerReturns(c, h) ==
  /\ h \in held[c]
  /\ h.phase = "running"
  /\ held' = [held EXCEPT ![c] = (@ \ {h}) \cup {[h EXCEPT !.phase = "returned"]}]
  /\ UNCHANGED <<brokerVars, now, dbVars, sessionVars, historyVars>>

\* Consumer.processMessage: the handler throws.
HandlerThrows(c, h) ==
  /\ h \in held[c]
  /\ h.phase = "running"
  /\ held' = [held EXCEPT ![c] = (@ \ {h}) \cup {[h EXCEPT !.phase = "thrown"]}]
  /\ UNCHANGED <<brokerVars, now, dbVars, sessionVars, historyVars>>

\* Consumer.processMessage: the handler throws a value that is not truthy
\* (throw undefined, a promise rejected without a reason); the catch block
\* stores it in error.
HandlerThrowsNothing(c, h) ==
  /\ h \in held[c]
  /\ h.phase = "running"
  /\ held' = [held EXCEPT ![c] = (@ \ {h}) \cup {[h EXCEPT !.phase = "rejected"]}]
  /\ UNCHANGED <<brokerVars, now, dbVars, sessionVars, historyVars>>

\* Consumer.processMessage: if (error) is false, complete() is called.
Succeeded(h) == h.phase \in {"returned", "rejected"}

\* ------------------------------------------------- subscription message

\* The sequential gate is lowered by complete() and fail() on a sequential
\* subscription, in the transaction of the status change.
GateLowered(s) ==
  IF Sequential(s)
  THEN [subs EXCEPT ![s].processing = FALSE]
  ELSE subs

\* SubscriptionMessage.completeMessage: UPDATE ... SET status = 'completed'.
CompleteMessage(k) ==
  IF k \in DOMAIN rows THEN [rows EXCEPT ![k].status = "completed"] ELSE rows

\* SubscriptionMessage.complete: the transaction, and the message object
\* leaving the hands of the consumer.
CompleteCall(c, h) ==
  LET k == <<h.sub, h.msg>>
  IN /\ h \in held[c]
     /\ Succeeded(h)
     /\ ~RowLocked(k) /\ ~SubLocked(h.sub)
     /\ rows' = CompleteMessage(k)
     /\ subs' = GateLowered(h.sub)
     /\ held' = [held EXCEPT ![c] = @ \ {h}]
     /\ completeCalls' = IF k \in DOMAIN rows
                         THEN Upsert(completeCalls, (k :> Count(k, completeCalls) + 1))
                         ELSE completeCalls
     /\ UNCHANGED <<now, nextId, messages, sessionVars, retryCalls, atCommit, atCreation>>

\* SubscriptionMessage.complete, called by the consumer after the handler
\* returned.
Complete(c, h) == CompleteCall(c, h) /\ UNCHANGED brokerVars

\* Mutant of FailStatus: the comparison is strict.
FailStatusStrict(attempts, maxAttempts) ==
  IF attempts > maxAttempts THEN "failed" ELSE "waiting"

\* failMessage: const status = this.attempts >= this.maxAttempts ? 'failed' : 'waiting'
FailStatus(attempts, maxAttempts) ==
  IF attempts >= maxAttempts THEN "failed" ELSE "waiting"

\* Mutant of RetryDelay: the delay does not grow with the attempts.
RetryDelayFlat(s, attempts) == subs[s].retry_delay

\* failMessage: the retry delay of the subscription's strategy.
RetryDelay(s, attempts) ==
  IF subs[s].retry_strategy = "linear" THEN subs[s].retry_delay
  ELSE subs[s].retry_delay * Pow2(attempts - 1)

\* failMessage: availableAt.
FailAvailableAt(s, attempts) ==
  IF attempts < subs[s].max_attempts THEN now + RetryDelay(s, attempts) ELSE NULL

\* Mutant of FailMessage: the statement writes the row whether it exists or
\* not.
FailMessageRecreating(h) ==
  LET k == <<h.sub, h.msg>>
  IN Upsert(rows, (k :> [NewRow(FailAvailableAt(h.sub, h.attempts)) EXCEPT
                           !.status = FailStatus(h.attempts, subs[h.sub].max_attempts),
                           !.attempts = h.attempts]))

\* SubscriptionMessage.failMessage: the UPDATE of the row.
FailMessage(h) ==
  LET k == <<h.sub, h.msg>>
  IN IF k \in DOMAIN rows
     THEN [rows EXCEPT ![k].status = FailStatus(h.attempts, subs[h.sub].max_attempts),
                       ![k].available_at = FailAvailableAt(h.sub, h.attempts)]
     ELSE rows

\* SubscriptionMessage.fail: the transaction, and the message object leaving
\* the hands of the consumer.
FailCall(c, h) ==
  /\ h \in held[c]
  /\ h.phase = "thrown"
  /\ ~RowLocked(<<h.sub, h.msg>>) /\ ~SubLocked(h.sub)
  /\ rows' = FailMessage(h)
  /\ subs' = GateLowered(h.sub)
  /\ held' = [held EXCEPT ![c] = @ \ {h}]
  /\ UNCHANGED <<now, nextId, messages, sessionVars, historyVars>>

\* SubscriptionMessage.fail, called by the consumer after the handler threw.
Fail(c, h) == FailCall(c, h) /\ UNCHANGED brokerVars

\* Mutant of RetryMessage: the retry also starts the attempts over.
RetryMessageFromZero(k) ==
  [rows EXCEPT ![k].status = "waiting", ![k].available_at = NULL, ![k].attempts = 0]

\* SubscriptionMessage.retry: the UPDATE of the row (status, available_at;
\* error_stack is not modelled).
RetryMessage(k) ==
  [rows EXCEPT ![k].status = "waiting", ![k].available_at = NULL]

\* SubscriptionMessage.retry on an object obtained from getMessages(): the
\* UPDATE has no condition on the status.
Retry(s, m) ==
  LET k == <<s, m>>
  IN /\ k \in DOMAIN rows
     /\ ~RowLocked(k)
     /\ Count(k, retryCalls) < MaxRetries
     /\ rows' = RetryMessage(k)
     /\ retryCalls' = Upsert(retryCalls, (k :> Count(k, retryCalls) + 1))
     /\ UNCHANGED <<brokerVars, now, nextId, messages, subs, held, sessionVars, completeCalls, atCommit, atCreation>>

\* SubscriptionMessage.heartbeat, from the heartbeat loop of processMessage.
Heartbeat(c, h) ==
  LET k == <<h.sub, h.msg>>
  IN /\ h \in held[c]
     /\ k \in DOMAIN rows
     /\ ~RowLocked(k)
     /\ rows[k].last_heartbeat_at # now
     /\ rows' = [rows EXCEPT ![k].last_heartbeat_at = now]
     /\ UNCHANGED <<brokerVars, now, nextId, messages, subs, held, sessionVars, historyVars>>

\* SubscriptionMessage.updateProgress, called by the handler: the UPDATE has
\* no condition but the key of the row.
UpdateProgress(c, h, value) ==
  LET k == <<h.sub, h.msg>>
  IN /\ h \in held[c]
     /\ h.phase = "running"
     /\ k \in DOMAIN rows
     /\ ~RowLocked(k)
     /\ rows[k].progress # value
     /\ rows' = [rows EXCEPT ![k].progress = value]
     /\ UNCHANGED <<brokerVars, now, nextId, messages, subs, held, sessionVars, historyVars>>

\* ------------------------------------------------------------ stale detector

\* Mutant of Stale: the status of the row is not looked at.
StaleWhateverStatus(k) ==
  /\ rows[k].last_heartbeat_at # NULL
  /\ rows[k].last_heartbeat_at <= now - StaleTimeout

\* WHERE status = 'processing' AND last_heartbeat_at <= staleAt
Stale(k) ==
  /\ rows[k].status = "processing"
  /\ rows[k].last_heartbeat_at # NULL
  /\ rows[k].last_heartbeat_at <= now - StaleTimeout

\* Mutant of StaleAfter: the age of the heartbeat is not looked at.
StaleAfterAnyAge(k, timeout) ==
  /\ rows[k].status = "processing"
  /\ rows[k].last_heartbeat_at # NULL

\* The same WHERE clause in a broker constructed with staleMessageTimeoutInMs
\* = timeout: staleAt = Date.now() - this.staleMessageTimeoutInMs.
StaleAfter(k, timeout) ==
  /\ rows[k].status = "processing"
  /\ rows[k].last_heartbeat_at # NULL
  /\ rows[k].last_heartbeat_at <= now - timeout

\* Mutant of StaleStatus: a stale row is always reopened.
StaleStatusAlwaysWaiting(staleCount) == "waiting"

\* CASE WHEN stale_count = 0 THEN 'waiting' ELSE 'failed' END
StaleStatus(staleCount) == IF staleCount = 0 THEN "waiting" ELSE "failed"

\* PgTransit.resetStaleMessages.
ResetStaleMessages ==
  LET stale == {k \in DOMAIN rows : Stale(k)}
      subIds == {k[1] : k \in stale}
  IN /\ stale # {}
     /\ \A s \in subIds : ~SubLocked(s)
     /\ rows' = [k \in DOMAIN rows |->
                  IF k \in stale
                  THEN [rows[k] EXCEPT !.status = StaleStatus(rows[k].stale_count),
                                       !.stale_count = @ + 1,
                                       !.last_heartbeat_at = NULL]
                  ELSE rows[k]]
     /\ subs' = [s \in DOMAIN subs |->
                  IF s \in subIds THEN [subs[s] EXCEPT !.processing = FALSE] ELSE subs[s]]
     /\ UNCHANGED <<brokerVars, now, nextId, messages, held, sessionVars, historyVars>>

\* PgTransit.resetStaleMessages of a broker constructed with
\* staleMessageTimeoutInMs = timeout.
ResetStaleMessagesAfter(timeout) ==
  LET stale == {k \in DOMAIN rows : StaleAfter(k, timeout)}
      subIds == {k[1] : k \in stale}
  IN /\ stale # {}
     /\ \A s \in subIds : ~SubLocked(s)
     /\ rows' = [k \in DOMAIN rows |->
                  IF k \in stale
                  THEN [rows[k] EXCEPT !.status = StaleStatus(rows[k].stale_count),
                                       !.stale_count = @ + 1,
                                       !.last_heartbeat_at = NULL]
                  ELSE rows[k]]
     /\ subs' = [s \in DOMAIN subs |->
                  IF s \in subIds THEN [subs[s] EXCEPT !.processing = FALSE] ELSE subs[s]]
     /\ UNCHANGED <<brokerVars, now, nextId, messages, held, sessionVars, historyVars>>

\* ------------------------------------------------------------ subscription

\* A pg_transit_subscriptions row as the Subscription constructor inserts it.
SubscriptionRow(mode, position, maxAttempts, strategy, delay) ==
  [consumption_mode |-> mode, start_position |-> position, max_attempts |-> maxAttempts,
   retry_strategy |-> strategy, retry_delay |-> delay, processing |-> FALSE]

\* Subscription constructor: INSERT INTO pg_transit_subscriptions ... ON
\* CONFLICT DO NOTHING, in its own transaction.  A new 'earliest' subscription
\* goes on to the backfill; an existing subscription is adopted as it is.
SubscriptionInsert(s, mode, position, maxAttempts, strategy, delay) ==
  /\ creating[s] = "none"
  /\ IF s \in DOMAIN subs
     THEN /\ creating' = [creating EXCEPT ![s] = "ready"]
          /\ UNCHANGED <<subs, atCreation>>
     ELSE /\ subs' = Upsert(subs, (s :> SubscriptionRow(mode, position, maxAttempts,
                                                        strategy, delay)))
          /\ creating' = [creating EXCEPT ![s] =
                            IF position = "earliest" THEN "backfill" ELSE "ready"]
          /\ atCreation' = Upsert(atCreation, (s :> DOMAIN messages))
  /\ UNCHANGED <<brokerVars, now, nextId, messages, rows, held, writers, reserving,
                 completeCalls, retryCalls, atCommit>>

\* The rows of the backfill: INSERT INTO pg_transit_subscription_messages
\* (subscription_id, message_id) SELECT s, id FROM pg_transit_messages.
Backfill(s) == [k \in {s} \X DOMAIN messages |-> NewRow(NULL)]

\* Subscription constructor: the backfill of a new 'earliest' subscription, a
\* second transaction.  The statement has no ON CONFLICT clause: when one of
\* its rows exists already it fails as a whole on the primary key and the
\* init promise rejects.
SubscriptionBackfill(s) ==
  /\ creating[s] = "backfill"
  /\ IF DOMAIN Backfill(s) \cap DOMAIN rows # {}
     THEN /\ creating' = [creating EXCEPT ![s] = "failed"]
          /\ UNCHANGED rows
     ELSE /\ creating' = [creating EXCEPT ![s] = "ready"]
          /\ rows' = Upsert(rows, Backfill(s))
  /\ UNCHANGED <<brokerVars, now, nextId, messages, subs, held, writers, reserving, historyVars>>

\* The rows of pg_transit_subscriptions with the unique key (topic, name).
Keyed(t, name) ==
  {i \in DOMAIN registry : registry[i].topic = t /\ registry[i].name = name}

\* Subscription constructor, else branch: SELECT * FROM
\* pg_transit_subscriptions WHERE name = ... ; the rows the statement can
\* return first (it has no ORDER BY).
Named(t, name) == {i \in DOMAIN registry : registry[i].name = name}

\* Subscription constructor on topic t, all topics considered: the INSERT ...
\* ON CONFLICT (topic_id, name) DO NOTHING, and for an existing subscription
\* the SELECT, the comparison of the options and the fields of the object.
\* The backfill of a new 'earliest' subscription is SubscriptionBackfill.
Subscribe(t, name, options) ==
  /\ IF Keyed(t, name) = {}
     THEN LET id == Cardinality(DOMAIN registry) + 1
          IN /\ registry' = Upsert(registry, (id :> [topic |-> t, name |-> name,
                                                      config |-> options]))
             /\ handle' = [topic |-> t, name |-> name, id |-> id, config |-> options,
                           options |-> options, error |-> FALSE]
     ELSE \E i \in Named(t, name) :
             /\ handle' = [topic |-> t, name |-> name, id |-> i,
                           config |-> registry[i].config, options |-> options,
                           error |-> options # registry[i].config]
             /\ UNCHANGED registry
  /\ UNCHANGED <<coreVars, schedulerVars, consumerVars, shutdownVars, retentionVars, loopVars>>

\* ------------------------------------------------------------------- trim

\* The smallest element of a non-empty set of ids.
Min(S) == CHOOSE a \in S : \A b \in S : a <= b

\* The ids of S in descending order, as a sequence.
RECURSIVE Descending(_)
Descending(S) ==
  IF S = {} THEN <<>>
  ELSE LET a == CHOOSE x \in S : \A y \in S : y <= x
       IN <<a>> \o Descending(S \ {a})

\* Mutant of Unprocessed: only the 'waiting' rows hold messages back.
UnprocessedWaiting == {k[2] : k \in {r \in DOMAIN rows : rows[r].status = "waiting"}}

\* trim: message_id of the rows with subscription_id = ANY(subscriptionIds)
\* AND status <> 'completed'.
Unprocessed == {k[2] : k \in {r \in DOMAIN rows : rows[r].status # "completed"}}

\* trim: earliestUnprocessedMessage (ORDER BY message_id LIMIT 1), NULL when
\* the topic has no subscription or no such row.
EarliestUnprocessed ==
  IF DOMAIN subs # {} /\ Unprocessed # {} THEN Min(Unprocessed) ELSE NULL

\* Mutant of LatestToRemove: the OFFSET is left out.
LatestToRemoveNoOffset(retention) ==
  LET e == EarliestUnprocessed
      below == Descending({m \in DOMAIN messages : e = NULL \/ m < e})
  IN IF Len(below) > 0 THEN below[1] ELSE NULL

\* trim: latestMessageToRemove: the messages below the earliest unprocessed
\* one, ORDER BY id DESC LIMIT 1 OFFSET retention; NULL when there is none.
LatestToRemove(retention) ==
  LET e == EarliestUnprocessed
      below == Descending({m \in DOMAIN messages : e = NULL \/ m < e})
  IN IF Len(below) > retention THEN below[retention + 1] ELSE NULL

\* trim: DELETE FROM pg_transit_messages WHERE id <= latestMessageToRemove.
Removed(retention) ==
  IF retention = Infinity \/ LatestToRemove(retention) = NULL THEN {}
  ELSE {m \in DOMAIN messages : m <= LatestToRemove(retention)}

\* Topic.trim() of a topic with maxMessagesRetention = retention, as one
\* transaction; the rows of the removed messages go with them (ON DELETE
\* CASCADE).
Trim(retention) ==
  /\ Removed(retention) # {}
  /\ \A k \in DOMAIN rows : k[2] \in Removed(retention) => ~RowLocked(k)
  /\ messages' = Without(messages, Removed(retention))
  /\ rows' = Without(rows, {k \in DOMAIN rows : k[2] \in Removed(retention)})
  /\ UNCHANGED <<brokerVars, now, nextId, subs, held, sessionVars, historyVars>>

\* ----------------------------------------------------------------- removal

\* DELETE FROM pg_transit_messages of the messages in ids; the rows of the
\* messages go with them (ON DELETE CASCADE).  The DELETE waits for the locks
\* of the rows it cascades to.  pg_transit_subscriptions is not touched.
DeleteMessages(ids) ==
  /\ \A k \in DOMAIN rows : k[2] \in ids => ~RowLocked(k)
  /\ messages' = Without(messages, ids)
  /\ rows' = Without(rows, {k \in DOMAIN rows : k[2] \in ids})
  /\ UNCHANGED <<now, nextId, subs, held, sessionVars, historyVars>>

\* Topic.trim() statement by statement.  The transaction runs at READ
\* COMMITTED: each of its statements reads what is committed when it runs.

\* trim: SELECT id FROM pg_transit_subscriptions WHERE topic_id = ...
TrimBegin(retention) ==
  /\ retention # Infinity
  /\ trimming.stage = "idle"
  /\ trimming' = [stage |-> "subscriptions", retention |-> retention,
                  subscriptionIds |-> DOMAIN subs]
  /\ UNCHANGED <<coreVars, schedulerVars, consumerVars, shutdownVars, registryVars, loopVars>>

\* trim: message_id of the rows with subscription_id = ANY(ids) AND status
\* <> 'completed'.
UnprocessedOf(ids) ==
  {k[2] : k \in {r \in DOMAIN rows : r[1] \in ids /\ rows[r].status # "completed"}}

\* trim: the SELECT of earliestUnprocessedMessage, skipped when the topic has
\* no subscription.
TrimEarliest ==
  /\ trimming.stage = "subscriptions"
  /\ LET ids == trimming.subscriptionIds
         e == IF ids # {} /\ UnprocessedOf(ids) # {} THEN Min(UnprocessedOf(ids)) ELSE NULL
     IN trimming' = [stage |-> "earliest", retention |-> trimming.retention, earliest |-> e]
  /\ UNCHANGED <<coreVars, schedulerVars, consumerVars, shutdownVars, registryVars, loopVars>>

\* trim: the SELECT of latestMessageToRemove with the earliest unprocessed
\* message e read before.
LatestBelow(e, retention) ==
  LET below == Descending({m \in DOMAIN messages : e = NULL \/ m < e})
  IN IF Len(below) > retention THEN below[retention + 1] ELSE NULL

\* trim: the SELECT of latestMessageToRemove; without one the transaction
\* ends.
TrimLatest ==
  /\ trimming.stage = "earliest"
  /\ LET l == LatestBelow(trimming.earliest, trimming.retention)
     IN trimming' = IF l = NULL THEN [stage |-> "idle"] ELSE [stage |-> "latest", latest |-> l]
  /\ UNCHANGED <<coreVars, schedulerVars, consumerVars, shutdownVars, registryVars, loopVars>>

\* trim: DELETE FROM pg_transit_messages WHERE id <= latestMessageToRemove,
\* and COMMIT.
TrimDelete ==
  /\ trimming.stage = "latest"
  /\ DeleteMessages({m \in DOMAIN messages : m <= trimming.latest})
  /\ trimming' = [stage |-> "idle"]
  /\ UNCHANGED <<schedulerVars, consumerVars, shutdownVars, registryVars, loopVars>>

\* Message.remove() on the object send() returned.
Remove(m) ==
  /\ m \in DOMAIN messages
  /\ DeleteMessages({m})
  /\ UNCHANGED brokerVars

\* A processScheduledMessages transaction in flight holds the scheduled
\* message locked (SELECT ... FOR UPDATE).
ScheduleLocked(name) ==
  \E p \in Processes : sweeps[p].stage = "open" /\ name \in sweeps[p].locked

\* Topic.clear(): every message and every scheduled message of the topic, in
\* one transaction; the DELETE waits for the row locks.
Clear ==
  /\ DOMAIN messages # {} \/ DOMAIN schedules # {}
  /\ \A name \in DOMAIN schedules : ~ScheduleLocked(name)
  /\ DeleteMessages(DOMAIN messages)
  /\ schedules' = <<>>
  /\ UNCHANGED <<sweeps, fired, consumerVars, shutdownVars, registryVars, retentionVars, loopVars>>

\* The process of consumer c dies: the message objects it holds are lost with
\* their handlers and heartbeat loops; nothing is written.
Crash(c) ==
  /\ held[c] # {}
  /\ held' = [held EXCEPT ![c] = {}]
  /\ UNCHANGED <<brokerVars, now, dbVars, sessionVars, historyVars>>

\* -------------------------------------------------------------- scheduler

\* A cron expression is modelled by its period: its occurrences are the
\* multiples of the period.
CronPeriods == {1, 2}

\* CronExpressionParser.parse(cron).next() with reference time t: the first
\* occurrence after t.
CronNext(cron, t) == ((t \div cron) + 1) * cron

\* Topic.schedule: the row built from the arguments; the next occurrence is
\* computed from the wall clock.
ScheduledMessageRow(cron, repeats, deliverInMs, priority) ==
  [cron |-> cron, next_occurrence_at |-> CronNext(cron, now), deliver_at |-> NULL,
   deliver_in_ms |-> deliverInMs, priority |-> priority, repeats |-> repeats,
   repeats_made |-> 0]

\* Mutant of Schedule: the upsert replaces the whole row, repeats_made
\* included.
ScheduleFromZero(name, cron, repeats, deliverInMs, priority) ==
  /\ ~ScheduleLocked(name)
  /\ schedules' = Upsert(schedules,
                         (name :> ScheduledMessageRow(cron, repeats, deliverInMs, priority)))
  /\ UNCHANGED <<coreVars, sweeps, fired, consumerVars, shutdownVars, registryVars, retentionVars, loopVars>>

\* Topic.schedule: INSERT ... ON CONFLICT (topic_id, name) DO UPDATE, which
\* leaves repeats_made of an existing row as it is.
Schedule(name, cron, repeats, deliverInMs, priority) ==
  LET row == ScheduledMessageRow(cron, repeats, deliverInMs, priority)
  IN /\ ~ScheduleLocked(name)
     /\ schedules' = Upsert(schedules,
          (name :> IF name \in DOMAIN schedules
                   THEN [row EXCEPT !.repeats_made = schedules[name].repeats_made]
                   ELSE row))
     /\ UNCHANGED <<coreVars, sweeps, fired, consumerVars, shutdownVars, registryVars, retentionVars, loopVars>>

\* processScheduledMessages: WHERE next_occurrence_at <= now AND (repeats IS
\* NULL OR repeats_made < repeats) FOR UPDATE SKIP LOCKED.
Due ==
  {name \in DOMAIN schedules :
     /\ schedules[name].next_occurrence_at <= now
     /\ schedules[name].repeats = NULL
          \/ schedules[name].repeats_made < schedules[name].repeats
     /\ ~ScheduleLocked(name)}

\* processScheduledMessages: BEGIN and the SELECT, which locks the due rows.
\* With no due row the transaction commits at once.
SweepSelect(p) ==
  /\ sweeps[p].stage = "idle"
  /\ IF Due = {}
     THEN UNCHANGED vars
     ELSE /\ sweeps' = [sweeps EXCEPT ![p] =
                         [stage |-> "open", locked |-> Due, left |-> Due,
                          inserted |-> {}, updates |-> <<>>]]
          /\ UNCHANGED <<coreVars, schedules, fired, consumerVars, shutdownVars, registryVars, retentionVars, loopVars>>

\* processScheduledMessages, loop body, first half: insertMessages(this.sql,
\* ...) runs on the connection pool, in a transaction of its own that commits
\* before the loop goes on.
SweepInsert(p) ==
  /\ sweeps[p].stage = "open"
  /\ sweeps[p].inserted = {}
  /\ \E name \in sweeps[p].left :
       LET row == schedules[name]
           at == DeliverAt(row.deliver_in_ms, row.deliver_at)
           new == NewMessages(1, row.priority, at)
       IN /\ nextId <= MaxMessages
          /\ messages' = Upsert(messages, new)
          /\ rows' = Upsert(rows, FanOutRows(DOMAIN subs, DOMAIN new, at))
          /\ nextId' = nextId + 1
          /\ atCommit' = Upsert(atCommit, [i \in DOMAIN new |-> DOMAIN subs])
          /\ fired' = Upsert(fired, (name :> Count(name, fired) + 1))
          /\ sweeps' = [sweeps EXCEPT ![p].inserted = {name}]
  /\ UNCHANGED <<now, subs, held, sessionVars, completeCalls, retryCalls, atCreation,
                 schedules, consumerVars, shutdownVars, registryVars, retentionVars, loopVars>>

\* processScheduledMessages, loop body, second half: the UPDATE of the
\* scheduled message inside the transaction; the next occurrence is computed
\* from the wall clock.
SweepUpdate(p) ==
  /\ sweeps[p].stage = "open"
  /\ \E name \in sweeps[p].inserted :
       sweeps' = [sweeps EXCEPT
         ![p].inserted = {},
         ![p].left = @ \ {name},
         ![p].updates = Upsert(@, (name :>
            [schedules[name] EXCEPT !.next_occurrence_at = CronNext(schedules[name].cron, now),
                                    !.repeats_made = @ + 1]))]
  /\ UNCHANGED <<coreVars, schedules, fired, consumerVars, shutdownVars, registryVars, retentionVars, loopVars>>

\* processScheduledMessages: COMMIT after the last row.
SweepCommit(p) ==
  /\ sweeps[p].stage = "open"
  /\ sweeps[p].left = {}
  /\ schedules' = Upsert(schedules, sweeps[p].updates)
  /\ sweeps' = [sweeps EXCEPT ![p] = Idle]
  /\ UNCHANGED <<coreVars, fired, consumerVars, shutdownVars, registryVars, retentionVars, loopVars>>

\* processScheduledMessages: the transaction fails (a statement is rejected,
\* the connection is lost or the process dies) and is rolled back; the
\* messages insertMessages committed stay.
SweepFail(p) ==
  /\ sweeps[p].stage = "open"
  /\ sweeps' = [sweeps EXCEPT ![p] = Idle]
  /\ UNCHANGED <<coreVars, schedules, fired, consumerVars, shutdownVars, registryVars, retentionVars, loopVars>>

\* ----------------------------------------------------- consumer runtime

\* The subscription the consumers are attached to.
Attached == "s1"

\* Consumer.concurrency setter: 1 on a sequential subscription.
Concurrency(s, value) == IF Sequential(s) THEN 1 ELSE value

RECURSIVE SumUpTo(_, _)
SumUpTo(f, n) == IF n = 0 THEN 0 ELSE f[n] + SumUpTo(f, n - 1)

\* consumeNextMessagesCallCount: the getNextMessages calls of the drain that
\* have not returned.
Pending(c) == SumUpTo(calls[c], MaxCount)

\* consumingMessageCount, when the consumer has the message objects inFlight
\* in processMessage.
ConsumingMessageCount(inFlight) == Cardinality(inFlight)

\* consumeNextMessages up to its await: free = concurrency -
\* consumingMessageCount; nothing is called when free <= 0, otherwise
\* getNextMessages(free) is pending.
Called(c, inFlight) ==
  LET free == concurrency[c] - ConsumingMessageCount(inFlight)
  IN IF free <= 0 THEN calls ELSE [calls EXCEPT ![c][free] = @ + 1]

\* consume: this.waitIdlePromise ??= ..., a drain in progress is joined.
Joins(c) == drains[c] > 0

\* Consumer.consume(): a new drain makes its first consumeNextMessages call.
ConsumeCall(c) ==
  /\ IF Joins(c)
     THEN UNCHANGED <<drains, calls>>
     ELSE /\ drains' = [drains EXCEPT ![c] = @ + 1]
          /\ calls' = Called(c, held[c])
  /\ UNCHANGED <<coreVars, schedulerVars, shutdownVars, concurrency, registryVars, retentionVars>>

\* Consumer.consume(), called by the application or by a poll loop that is
\* not followed.
Consume(c) == ConsumeCall(c) /\ UNCHANGED <<started, loopVars>>

\* loop(): a poll loop as start() creates it, in its immediate callback.
PollLoop == [stopped |-> FALSE, stage |-> "callback"]

\* The poll loops of c that can still call consume().
ActiveLoops(c) ==
  {i \in DOMAIN loops[c] : ~loops[c][i].stopped /\ loops[c][i].stage # "ended"}

\* Consumer.start(): nothing on a started consumer; otherwise a poll loop is
\* created and makes its immediate consume() call, whose body runs before
\* any stop() issued later reads waitIdlePromise.
Start(c) ==
  IF started[c]
  THEN UNCHANGED vars
  ELSE /\ Len(loops[c]) < MaxLoops
       /\ started' = [started EXCEPT ![c] = TRUE]
       /\ loops' = [loops EXCEPT ![c] = Append(@, PollLoop)]
       /\ stopCalls' = [stopCalls EXCEPT ![c] = [awaiting |-> FALSE, resolved |-> FALSE]]
       /\ ConsumeCall(c)

\* The function loop() returned: stopped = true and clearTimeout(timer), on
\* the newest loop of c; a timer that is armed (the callback is not in
\* flight) never fires.
Halted(c) ==
  [i \in DOMAIN loops[c] |->
     IF i = Len(loops[c])
     THEN [stopped |-> TRUE,
           stage |-> IF drains[c] = 0 THEN "ended" ELSE loops[c][i].stage]
     ELSE loops[c][i]]

\* Consumer.stop(), up to its await: on a consumer that is not started the
\* call returns; otherwise the newest loop is stopped and the call awaits
\* waitIdle().
Stop(c) ==
  /\ IF started[c]
     THEN /\ started' = [started EXCEPT ![c] = FALSE]
          /\ loops' = [loops EXCEPT ![c] = Halted(c)]
          /\ stopCalls' = [stopCalls EXCEPT ![c].awaiting = TRUE]
     ELSE /\ stopCalls' = [stopCalls EXCEPT ![c].resolved = TRUE]
          /\ UNCHANGED <<started, loops>>
  /\ UNCHANGED <<coreVars, schedulerVars, shutdownVars, concurrency, drains, calls,
                 registryVars, retentionVars>>

\* Consumer.stop() after await this.waitIdle(): the drain in progress, if
\* any, has ended.
StopResolves(c) ==
  /\ stopCalls[c].awaiting
  /\ drains[c] = 0
  /\ stopCalls' = [stopCalls EXCEPT ![c] = [awaiting |-> FALSE, resolved |-> TRUE]]
  /\ UNCHANGED <<coreVars, schedulerVars, consumerVars, shutdownVars, registryVars,
                 retentionVars, loops>>

\* loop(): the timer of loop i fires after its callback has ended (the drain
\* it awaited is over): a stopped loop returns for good, the others call
\* consume() again.
TimerFires(c, i) ==
  /\ i \in DOMAIN loops[c]
  /\ loops[c][i].stage = "callback"
  /\ drains[c] = 0
  /\ IF loops[c][i].stopped
     THEN /\ loops' = [loops EXCEPT ![c][i].stage = "ended"]
          /\ UNCHANGED <<coreVars, schedulerVars, consumerVars, shutdownVars, registryVars,
                         retentionVars, stopCalls>>
     ELSE /\ ConsumeCall(c)
          /\ UNCHANGED <<started, loopVars>>

\* Mutant of IsIdle: the call that evaluates the condition is not counted.
IsIdleUncounted(c, batch) ==
  batch = <<>> /\ ConsumingMessageCount(held[c]) = 0 /\ Pending(c) = 0

\* Mutant of IsIdle: the pending calls are not looked at.
IsIdleAlone(c, batch) == batch = <<>> /\ ConsumingMessageCount(held[c]) = 0

\* consumeNextMessages: messages.length === 0 && this.consumingMessageCount
\* === 0 && consumeNextMessagesCallCount === 1
IsIdle(c, batch) ==
  batch = <<>> /\ ConsumingMessageCount(held[c]) = 0 /\ Pending(c) = 1

\* consumeNextMessages after its await: a pending getNextMessages(count)
\* returns.  The drain ends when the consumer is idle; otherwise
\* processMessage starts for every returned message.
ReservationReturns(c, count) ==
  LET s == Attached
      batch == IF Sequential(s) /\ subs[s].processing THEN <<>> ELSE Candidates(s, count)
      ids == {batch[i] : i \in 1..Len(batch)}
  IN /\ calls[c][count] > 0
     /\ ~SubLocked(s)
     /\ calls' = [calls EXCEPT ![c][count] = @ - 1]
     /\ drains' = IF IsIdle(c, batch) THEN [drains EXCEPT ![c] = 0] ELSE drains
     /\ IF batch = <<>>
        THEN UNCHANGED <<subs, rows, held>>
        ELSE /\ subs' = GateRaised(s)
             /\ rows' = ReservedRows(s, ids)
             /\ held' = [held EXCEPT ![c] = @ \cup Returned(s, batch)]
     /\ UNCHANGED <<now, nextId, messages, sessionVars, historyVars, schedulerVars,
                    shutdownVars, concurrency, started, registryVars, retentionVars, loopVars>>

\* processMessage after a handler that returned: complete(), the finally
\* block, and the next consumeNextMessages call of the forEach callback.
ProcessMessageCompletes(c, h) ==
  /\ CompleteCall(c, h)
  /\ calls' = Called(c, held[c] \ {h})
  /\ UNCHANGED <<schedulerVars, shutdownVars, concurrency, started, drains, registryVars, retentionVars, loopVars>>

\* processMessage after a handler that threw: fail(error), the finally block,
\* and the next consumeNextMessages call of the forEach callback.
ProcessMessageFails(c, h) ==
  /\ FailCall(c, h)
  /\ calls' = Called(c, held[c] \ {h})
  /\ UNCHANGED <<schedulerVars, shutdownVars, concurrency, started, drains, registryVars, retentionVars, loopVars>>

\* consumeNextMessages: getNextMessages rejects (a database error); the
\* finally block runs and the rejection leaves consumeNextMessages.
ReservationRejects(c, count) ==
  /\ calls[c][count] > 0
  /\ calls' = [calls EXCEPT ![c][count] = @ - 1]
  /\ UNCHANGED <<coreVars, schedulerVars, shutdownVars, concurrency, started, drains, registryVars, retentionVars, loopVars>>

\* processMessage: complete() or fail() rejects (a database error); the
\* finally block runs, the rejection leaves the forEach callback before its
\* consumeNextMessages call, and the row stays as it is.
FinalizationRejects(c, h) ==
  /\ h \in held[c]
  /\ h.phase \in {"returned", "thrown", "rejected"}
  /\ held' = [held EXCEPT ![c] = @ \ {h}]
  /\ UNCHANGED <<now, dbVars, sessionVars, historyVars, brokerVars>>

\* ---------------------------------------------------------------- shutdown

\* The pool has not been released: sql.end() has not been called.
PoolOpen == closing.stage # "ended"

\* trimTopics, resetStaleMessages or processScheduledMessages, called by its
\* loop: the promise of the operation enters pendingPromises. A loop awaits
\* its callback before it arms the next timer, and a stopped loop does not
\* call it. The statements of the operations are Trim, ResetStaleMessages
\* and the sweep; only the promise is kept here.
OperationStarts(op) ==
  /\ closing = Open
  /\ operations[op] = "none"
  /\ operations' = [operations EXCEPT ![op] = "pending"]
  /\ UNCHANGED <<coreVars, schedulerVars, consumerVars, closing, registryVars, retentionVars, loopVars>>

\* The promise of the operation is fulfilled; the finally block deletes it
\* from pendingPromises.
OperationEnds(op) ==
  /\ operations[op] = "pending"
  /\ operations' = [operations EXCEPT ![op] = "none"]
  /\ UNCHANGED <<coreVars, schedulerVars, consumerVars, closing, registryVars, retentionVars, loopVars>>

\* The promise of the operation is rejected (a database error); the finally
\* block deletes it from pendingPromises, and the Promise.all of a close()
\* that awaits it rejects: close() ends before sql.end().
OperationFails(op) ==
  /\ operations[op] = "pending"
  /\ operations' = [operations EXCEPT ![op] = "none"]
  /\ closing' = IF closing.stage = "awaiting" THEN [stage |-> "rejected"] ELSE closing
  /\ UNCHANGED <<coreVars, schedulerVars, consumerVars, registryVars, retentionVars, loopVars>>

\* Consumer.stop(): a consumer that is not started returns at once, a
\* started one awaits waitIdle(), that is the drain in progress, if any.
StopAwaits(c) == started[c] /\ drains[c] > 0

\* PgTransit.close(), up to the await of Promise.all: the three loops are
\* stopped, the pending promises are collected and every consumer is
\* stopped.
Close ==
  /\ closing = Open
  /\ closing' = [stage |-> "awaiting", stops |-> {c \in Consumers : StopAwaits(c)}]
  /\ started' = [c \in Consumers |-> FALSE]
  /\ loops' = [c \in Consumers |-> IF started[c] THEN Halted(c) ELSE loops[c]]
  /\ UNCHANGED <<coreVars, schedulerVars, concurrency, drains, calls, operations, registryVars,
                 retentionVars, stopCalls>>

\* PgTransit.close(), after Promise.all is fulfilled: sql.end().
CloseEnds ==
  /\ closing.stage = "awaiting"
  /\ \A op \in Operations : operations[op] = "none"
  /\ \A c \in closing.stops : drains[c] = 0
  /\ closing' = [stage |-> "ended"]
  /\ UNCHANGED <<coreVars, schedulerVars, consumerVars, operations, registryVars, retentionVars, loopVars>>

\* ------------------------------------------------------------------ clock

Tick ==
  /\ now < MaxTime
  /\ now' = now + 1
  /\ UNCHANGED <<brokerVars, dbVars, held, sessionVars, historyVars>>

\* A timestamp after the origin of the clock has moved forward by one unit.
Shift(t) == IF t = NULL THEN NULL ELSE IF t > 0 THEN t - 1 ELSE 0

\* Time advancing without end on the bounded clock: below the horizon the
\* clock goes forward; at the horizon MaxTime its origin does, so that every
\* stored timestamp is one unit older (a timestamp at the origin stays there:
\* it is already at least StaleTimeout old and not in the future).
Advance ==
  IF now < MaxTime
  THEN /\ now' = now + 1
       /\ UNCHANGED <<brokerVars, dbVars, held, sessionVars, historyVars>>
  ELSE /\ rows' = [k \in DOMAIN rows |->
                    [rows[k] EXCEPT !.available_at = Shift(@), !.last_heartbeat_at = Shift(@)]]
       /\ messages' = [m \in DOMAIN messages |-> [messages[m] EXCEPT !.deliver_at = Shift(@)]]
       /\ UNCHANGED <<brokerVars, now, nextId, subs, held, sessionVars, historyVars>>

\* ---------------------------------------------------------- specifications

Modes == {"sequential", "parallel"}

Positions == {"earliest", "latest"}

Priorities == {NULL} \cup (1..MaxPriority)

Retentions == {Infinity} \cup (0..MaxRetention)

\* The database and the sessions after the subscriptions in initial were
\* constructed on an empty topic whose next message gets the id first; no
\* consumer has started a drain.
InitLifecycle(initial, first) ==
  /\ now = 0
  /\ nextId = first
  /\ messages = <<>>
  /\ subs = initial
  /\ rows = <<>>
  /\ held = [c \in Consumers |-> {}]
  /\ writers = [w \in Writers |-> Idle]
  /\ creating = [s \in SubNames |-> IF s \in DOMAIN initial THEN "ready" ELSE "none"]
  /\ reserving = [c \in Consumers |-> Idle]
  /\ completeCalls = <<>>
  /\ retryCalls = <<>>
  /\ atCommit = <<>>
  /\ atCreation = [s \in DOMAIN initial |-> {}]
  /\ schedules = <<>>
  /\ sweeps = [p \in Processes |-> Idle]
  /\ fired = <<>>
  /\ drains = [c \in Consumers |-> 0]
  /\ calls = [c \in Consumers |-> [count \in 1..MaxCount |-> 0]]
  /\ operations = [op \in Operations |-> "none"]
  /\ closing = Open
  /\ registry = <<>>
  /\ handle = NoHandle
  /\ trimming = [stage |-> "idle"]
  /\ loops = [c \in Consumers |-> <<>>]
  /\ stopCalls = [c \in Consumers |-> [awaiting |-> FALSE, resolved |-> FALSE]]

\* The state after construction: the consumers have concurrency 1.
InitFrom(initial, first) ==
  /\ InitLifecycle(initial, first)
  /\ concurrency = [c \in Consumers |-> 1]
  /\ started = [c \in Consumers |-> TRUE]

InitWith(initial) == InitFrom(initial, 1)

\* The message lifecycle, every transaction one action.  One subscription
\* "s1", created before any message is sent, with any consumption mode and
\* maxAttempts 1 or 2, linear retry without delay.
Init ==
  \E mode \in Modes, maxAttempts \in 1..2 :
    InitWith("s1" :> SubscriptionRow(mode, "latest", maxAttempts, "linear", 0))

Send == InsertMessages(1, NULL, NULL, NULL)

Reserve == \E c \in Consumers : held[c] = {} /\ GetNextMessages(c, "s1", 1)

Return == \E c \in Consumers : \E h \in held[c] : HandlerReturns(c, h)

Throw == \E c \in Consumers : \E h \in held[c] : HandlerThrows(c, h)

Completes == \E c \in Consumers : \E h \in held[c] : Complete(c, h)

Fails == \E c \in Consumers : \E h \in held[c] : Fail(c, h)

\* retry() is called on the failed messages getMessages('failed') returned.
Retries == \E k \in DOMAIN rows : rows[k].status = "failed" /\ Retry(k[1], k[2])

Heartbeats == \E c \in Consumers : \E h \in held[c] : Heartbeat(c, h)

Next ==
  \/ Send
  \/ Reserve
  \/ Return
  \/ Throw
  \/ Completes
  \/ Fails
  \/ Retries
  \/ Heartbeats
  \/ ResetStaleMessages
  \/ Tick

Spec == Init /\ [][Next]_vars

\* Reservation order.  One subscription of any mode without retries; the
\* messages are sent with any priority and no delay; a consumer asks for as
\* many messages as it has free slots.
InitOrder ==
  \E mode \in Modes : InitWith("s1" :> SubscriptionRow(mode, "latest", 1, "linear", 0))

SendPrioritised == \E priority \in Priorities : InsertMessages(1, NULL, NULL, priority)

ReserveBatch ==
  \E c \in Consumers : \E count \in 1..(MaxCount - Cardinality(held[c])) :
    GetNextMessages(c, "s1", count)

NextOrder ==
  \/ SendPrioritised
  \/ ReserveBatch
  \/ Return
  \/ Completes

SpecOrder == InitOrder /\ [][NextOrder]_vars

\* Retention.  Subscription "s1" exists from the start, "s2" is created with
\* start position 'latest' while messages flow; trim runs with any retention.
InitTrim ==
  \E mode \in Modes : InitWith("s1" :> SubscriptionRow(mode, "latest", 1, "linear", 0))

SubscribeLatest ==
  \E mode \in Modes : SubscriptionInsert("s2", mode, "latest", 1, "linear", 0)

ReserveAny ==
  \E c \in Consumers : \E s \in DOMAIN subs : held[c] = {} /\ GetNextMessages(c, s, 1)

Trims == \E retention \in Retentions : Trim(retention)

NextTrim ==
  \/ Send
  \/ SubscribeLatest
  \/ ReserveAny
  \/ Return
  \/ Throw
  \/ Completes
  \/ Fails
  \/ Trims

SpecTrim == InitTrim /\ [][NextTrim]_vars

\* Fan-out and start position, statement by statement.  The topic starts
\* without subscriptions; two writers send single messages, with or without a
\* delay, while the subscriptions are constructed with either start position.
InitFanout == InitWith(<<>>)

InsertBegins ==
  \E w \in Writers : \E deliverInMs \in {NULL, 1} : InsertBegin(w, 1, deliverInMs, NULL, NULL)

InsertFanOuts == \E w \in Writers : InsertFanOut(w)

InsertCommits == \E w \in Writers : InsertCommit(w)

SubscriptionInserts ==
  \E s \in SubNames : \E position \in Positions :
    SubscriptionInsert(s, "parallel", position, 1, "linear", 0)

SubscriptionBackfills == \E s \in SubNames : SubscriptionBackfill(s)

NextFanout ==
  \/ InsertBegins
  \/ InsertFanOuts
  \/ InsertCommits
  \/ SubscriptionInserts
  \/ SubscriptionBackfills

SpecFanout == InitFanout /\ [][NextFanout]_vars

\* Concurrent reservation, statement by statement.  One subscription of any
\* mode with maxAttempts 2; the getNextMessages transactions of the two
\* consumers interleave with one another and with complete() and fail().
InitReserve ==
  \E mode \in Modes : InitWith("s1" :> SubscriptionRow(mode, "latest", 2, "linear", 0))

ReserveBegins ==
  \E c \in Consumers : \E count \in 1..(MaxCount - Cardinality(held[c])) :
    ReserveBegin(c, "s1", count)

ReserveSelects == \E c \in Consumers : ReserveSelect(c)

ReserveCommits == \E c \in Consumers : ReserveCommit(c)

NextReserve ==
  \/ Send
  \/ ReserveBegins
  \/ ReserveSelects
  \/ ReserveCommits
  \/ Return
  \/ Throw
  \/ Completes
  \/ Fails

SpecReserve == InitReserve /\ [][NextReserve]_vars

\* Retries and delays.  One subscription of any mode with maxAttempts up to
\* 3, either retry strategy and a retry delay of 0 or 1; messages are sent
\* with or without a delivery delay (deliverInMs, deliverAt or both); the
\* stale detector does not run.
Strategies == {"linear", "exponential"}

InitRetry ==
  \E mode \in Modes, maxAttempts \in 1..3, strategy \in Strategies, delay \in 0..1 :
    InitWith("s1" :> SubscriptionRow(mode, "latest", maxAttempts, strategy, delay))

SendDelayed ==
  \E deliverInMs \in {NULL, 0, 1} : \E deliverAt \in {NULL, MaxTime} :
    InsertMessages(1, deliverInMs, deliverAt, NULL)

NextRetry ==
  \/ SendDelayed
  \/ Reserve
  \/ Return
  \/ Throw
  \/ Completes
  \/ Fails
  \/ Tick

SpecRetry == InitRetry /\ [][NextRetry]_vars

\* The sequential gate.  One sequential subscription with maxAttempts 1; the
\* messages are sent, processed, removed one by one or all at once, consumers
\* crash, and the stale detector runs.
InitGate == InitWith("s1" :> SubscriptionRow("sequential", "latest", 1, "linear", 0))

Removes == \E m \in DOMAIN messages : Remove(m)

Crashes == \E c \in Consumers : Crash(c)

NextGate ==
  \/ Send
  \/ Reserve
  \/ Return
  \/ Throw
  \/ Completes
  \/ Fails
  \/ Removes
  \/ Clear
  \/ Crashes
  \/ ResetStaleMessages
  \/ Tick

SpecGate == InitGate /\ [][NextGate]_vars

\* Gate recovery.  The sequential subscription of SpecGate; the stale detector
\* loop keeps running, time keeps advancing, the consumers keep polling and
\* finalizing, and handlers end.
NextRecovery ==
  \/ Send
  \/ Reserve
  \/ Return
  \/ Throw
  \/ Completes
  \/ Fails
  \/ Removes
  \/ Crashes
  \/ ResetStaleMessages
  \/ Advance

Polling ==
  /\ WF_vars(Reserve)
  /\ WF_vars(Return \/ Throw)
  /\ WF_vars(Completes)
  /\ WF_vars(Fails)

Sweeping == WF_vars(ResetStaleMessages) /\ WF_vars(Advance)

SpecRecovery == InitGate /\ [][NextRecovery]_vars /\ Polling /\ Sweeping

\* Delivery.  One subscription of any mode with maxAttempts 1 or 2 and a
\* retry delay of 0 or 1: MaxMessages messages on the sequential subscription
\* without retries, one message otherwise.  Consumers crash at any moment and
\* come back; no message is removed and retry() is not called.  The
\* consumers keep polling, handlers end, and the stale detector and the clock
\* keep running.
InitDelivery ==
  \E mode \in Modes, maxAttempts \in 1..2, delay \in 0..1 :
    InitFrom("s1" :> SubscriptionRow(mode, "latest", maxAttempts, "linear", delay),
             IF mode = "sequential" /\ maxAttempts = 1 /\ delay = 0 THEN 1 ELSE MaxMessages)

NextDelivery ==
  \/ Send
  \/ Reserve
  \/ Return
  \/ Throw
  \/ Completes
  \/ Fails
  \/ Heartbeats
  \/ Crashes
  \/ ResetStaleMessages
  \/ Advance

SpecDelivery == InitDelivery /\ [][NextDelivery]_vars /\ Polling /\ Sweeping

\* Retries among new arrivals: one subscription of either mode with
\* maxAttempts 1..3 and a linear retry delay of 0 or 1; messages are sent with
\* or without a priority, at once or for delivery at MaxTime; consumers take
\* one message at a time and handlers return or throw.
InitRequeue ==
  \E mode \in Modes, maxAttempts \in 1..3, delay \in 0..1 :
    InitWith("s1" :> SubscriptionRow(mode, "latest", maxAttempts, "linear", delay))

SendAny ==
  \E priority \in {NULL, 1} : \E deliverAt \in {NULL, MaxTime} :
    InsertMessages(1, NULL, deliverAt, priority)

NextRequeue ==
  \/ SendAny
  \/ Reserve
  \/ Return
  \/ Throw
  \/ Completes
  \/ Fails
  \/ Tick

SpecRequeue == InitRequeue /\ [][NextRequeue]_vars

\* Delayed delivery: subscription "s1" of either mode with maxAttempts 2
\* and a linear retry delay of 0 or 1 exists from the start; messages are sent
\* at once, with deliverInMs or with deliverAt; a second subscription "s2" may
\* be created at any time with start position 'earliest'; one consumer takes
\* one message at a time from either and the clock ticks.
InitDelayed ==
  \E mode \in Modes, delay \in 0..1 :
    InitWith("s1" :> SubscriptionRow(mode, "latest", 2, "linear", delay))

SubscribeEarliest == SubscriptionInsert("s2", "parallel", "earliest", 1, "linear", 0)

ReserveAlone ==
  \E s \in DOMAIN subs : held["c1"] = {} /\ GetNextMessages("c1", s, 1)

NextDelayed ==
  \/ SendDelayed
  \/ SubscribeEarliest
  \/ SubscriptionBackfills
  \/ ReserveAlone
  \/ Return
  \/ Throw
  \/ Completes
  \/ Fails
  \/ Tick

SpecDelayed == InitDelayed /\ [][NextDelayed]_vars

\* The scheduler: one parallel subscription; a scheduled message is created
\* with period 1 or 2, with or without repeats = 1; two processes run
\* processScheduledMessages statement by statement, a transaction may fail
\* at any point, and the clock ticks.
InitSchedule == InitWith("s1" :> SubscriptionRow("parallel", "latest", 1, "linear", 0))

Schedules ==
  \E name \in ScheduleNames : \E cron \in CronPeriods : \E repeats \in {NULL, 1} :
    name \notin DOMAIN schedules /\ Schedule(name, cron, repeats, NULL, NULL)

SweepSelects == \E p \in Processes : SweepSelect(p)

SweepInserts == \E p \in Processes : SweepInsert(p)

SweepUpdates == \E p \in Processes : SweepUpdate(p)

SweepCommits == \E p \in Processes : SweepCommit(p)

SweepFails == \E p \in Processes : SweepFail(p)

NextSchedule ==
  \/ Schedules
  \/ SweepSelects
  \/ SweepInserts
  \/ SweepUpdates
  \/ SweepCommits
  \/ SweepFails
  \/ Tick

SpecSchedule == InitSchedule /\ [][NextSchedule]_vars

\* The drain of one consumer "c1" on subscription "s1" of either mode with
\* maxAttempts 1 or 2 and no retry delay; the consumer is configured with a
\* concurrency of 1..MaxCount; MaxMessages + 1 messages (ids from 0) can be
\* sent at any moment; consume() is called at any moment; handlers return or
\* throw.
InitDrain ==
  \E mode \in Modes, maxAttempts \in 1..2, value \in 1..MaxCount :
    /\ InitLifecycle("s1" :> SubscriptionRow(mode, "latest", maxAttempts, "linear", 0), 0)
    /\ concurrency = [c \in Consumers |-> Concurrency(Attached, value)]
    /\ started = [c \in Consumers |-> TRUE]

Consumes == Consume("c1")

ReservationsReturn == \E count \in 1..MaxCount : ReservationReturns("c1", count)

ProcessCompletes == \E h \in held["c1"] : ProcessMessageCompletes("c1", h)

ProcessFails == \E h \in held["c1"] : ProcessMessageFails("c1", h)

ThrowNothing == \E h \in held["c1"] : HandlerThrowsNothing("c1", h)

NextDrain ==
  \/ Send
  \/ Consumes
  \/ ReservationsReturn
  \/ Return
  \/ Throw
  \/ ThrowNothing
  \/ ProcessCompletes
  \/ ProcessFails

SpecDrain == InitDrain /\ [][NextDrain]_vars

\* The event loop runs every continuation that is ready: a reservation the
\* database answered, a handler that returns or throws, a complete() or
\* fail() the database answered.
FairDrain ==
  /\ SpecDrain
  /\ WF_vars(ReservationsReturn)
  /\ WF_vars(Return \/ Throw \/ ThrowNothing)
  /\ WF_vars(ProcessCompletes \/ ProcessFails)

\* The drain when the database can fail: a reservation or a finalization
\* that is pending is answered or rejected.
ReservationsReject == \E count \in 1..MaxCount : ReservationRejects("c1", count)

FinalizationsReject == \E h \in held["c1"] : FinalizationRejects("c1", h)

NextFaulty ==
  \/ Send
  \/ Consumes
  \/ ReservationsReturn
  \/ ReservationsReject
  \/ Return
  \/ Throw
  \/ ThrowNothing
  \/ ProcessCompletes
  \/ ProcessFails
  \/ FinalizationsReject

FaultyDrain ==
  /\ InitDrain /\ [][NextFaulty]_vars
  /\ WF_vars(ReservationsReturn \/ ReservationsReject)
  /\ WF_vars(Return \/ Throw \/ ThrowNothing)
  /\ WF_vars(ProcessCompletes \/ ProcessFails \/ FinalizationsReject)

\* The shutdown: a broker with one consumer, started or not, its loops and
\* close(). Once the pool is released the database calls of the consumer
\* can reject.
InitClose ==
  \E mode \in Modes, value \in 1..MaxCount, autostart \in BOOLEAN :
    /\ InitLifecycle("s1" :> SubscriptionRow(mode, "latest", 1, "linear", 0), 1)
    /\ concurrency = [c \in Consumers |-> Concurrency(Attached, value)]
    /\ started = [c \in Consumers |-> autostart]

\* consume(), called by the poll loop of a started consumer or by the
\* application.
ConsumesOpen == closing = Open /\ Consume("c1")

SendsOpen == PoolOpen /\ Send

ReservationsRejectEnded == ~PoolOpen /\ ReservationsReject

FinalizationsRejectEnded == ~PoolOpen /\ FinalizationsReject

OperationsStart == \E op \in Operations : OperationStarts(op)

OperationsEnd == \E op \in Operations : OperationEnds(op)

OperationsFail == \E op \in Operations : OperationFails(op)

NextClose ==
  \/ SendsOpen
  \/ ConsumesOpen
  \/ ReservationsReturn
  \/ ReservationsRejectEnded
  \/ Return
  \/ Throw
  \/ ProcessCompletes
  \/ ProcessFails
  \/ FinalizationsRejectEnded
  \/ OperationsStart
  \/ OperationsEnd
  \/ OperationsFail
  \/ Close
  \/ CloseEnds

SpecClose == InitClose /\ [][NextClose]_vars

\* Subscriptions on two topics: subscribe() with one name and any mode and
\* maxAttempts, on a new or an existing (topic, name).
InitSubscribe == InitWith(<<>>)

Subscribes ==
  \E t \in Topics, mode \in Modes, maxAttempts \in 1..2 :
    Subscribe(t, "s1", SubscriptionRow(mode, "latest", maxAttempts, "linear", 0))

NextSubscribe == Subscribes

SpecSubscribe == InitSubscribe /\ [][NextSubscribe]_vars

\* Bulk sends.  A sequential subscription with maxAttempts 1 or 2; batches of
\* two or three payloads are sent without priority or delay and two
\* consumers process them.
InitBulk ==
  \E maxAttempts \in 1..2 :
    InitFrom("s1" :> SubscriptionRow("sequential", "latest", maxAttempts, "linear", 0), 0)

SendBulk == \E n \in 2..(MaxMessages + 1) : InsertMessages(n, NULL, NULL, NULL)

NextBulk ==
  \/ SendBulk
  \/ Reserve
  \/ Return
  \/ Throw
  \/ Completes
  \/ Fails

SpecBulk == InitBulk /\ [][NextBulk]_vars

\* The effect of a reservation.  Subscription "s1" of any mode and the
\* parallel "s2", both with maxAttempts 2; consumer "c1" reserves batches
\* from "s1" and "c2" from "s2", and their handlers report progress, return
\* or throw.
InitEffect ==
  \E mode \in Modes :
    InitWith(("s1" :> SubscriptionRow(mode, "latest", 2, "linear", 0))
             @@ ("s2" :> SubscriptionRow("parallel", "latest", 2, "linear", 0)))

ReserveFrom ==
  \E count \in 1..MaxCount :
    \/ held["c1"] = {} /\ GetNextMessages("c1", "s1", count)
    \/ held["c2"] = {} /\ GetNextMessages("c2", "s2", count)

Progresses == \E c \in Consumers : \E h \in held[c] : UpdateProgress(c, h, 1)

NextEffect ==
  \/ Send
  \/ ReserveFrom
  \/ Progresses
  \/ Return
  \/ Throw
  \/ Completes
  \/ Fails

SpecEffect == InitEffect /\ [][NextEffect]_vars

\* Removal under a running consumer: the drain of SpecDrain, with messages
\* removed at any moment, also while their handler runs.
NextRemoval ==
  \/ Send
  \/ Removes
  \/ Consumes
  \/ ReservationsReturn
  \/ Return
  \/ Throw
  \/ ProcessCompletes
  \/ ProcessFails

FairRemoval ==
  /\ InitDrain /\ [][NextRemoval]_vars
  /\ WF_vars(ReservationsReturn)
  /\ WF_vars(Return \/ Throw)
  /\ WF_vars(ProcessCompletes \/ ProcessFails)

\* Rescheduling.  schedule() is called for the same name again and again,
\* with another cron, repeats or priority, while one process sweeps.
Reschedules ==
  \E cron \in CronPeriods, repeats \in {NULL, 1, 2}, priority \in {NULL, 1} :
    Schedule("job", cron, repeats, NULL, priority)

SweepsAlone ==
  \/ SweepSelect("p1")
  \/ SweepInsert("p1")
  \/ SweepUpdate("p1")
  \/ SweepCommit("p1")

NextReschedule ==
  \/ Reschedules
  \/ SweepsAlone
  \/ Tick

SpecReschedule == InitSchedule /\ [][NextReschedule]_vars

\* Heartbeats.  The broker is constructed with a stale timeout of two units
\* and the consumers beat every unit: the timer of a heartbeat loop fires
\* when its interval has passed, so the clock does not go on while the
\* heartbeat of a message object in a living process is due.  Processes die
\* at any moment, and their heartbeat loops with them.
LongTimeout == 2

HeartbeatDue(c, h) ==
  /\ <<h.sub, h.msg>> \in DOMAIN rows
  /\ rows[<<h.sub, h.msg>>].last_heartbeat_at # now

TimerTick ==
  /\ \A c \in Consumers : \A h \in held[c] : ~HeartbeatDue(c, h)
  /\ Tick

InitHeartbeat ==
  \E mode \in Modes :
    InitWith("s1" :> SubscriptionRow(mode, "latest", 2, "linear", 0))

NextHeartbeat ==
  \/ Send
  \/ Reserve
  \/ Return
  \/ Throw
  \/ Completes
  \/ Fails
  \/ Heartbeats
  \/ Crashes
  \/ ResetStaleMessagesAfter(LongTimeout)
  \/ TimerTick

SpecHeartbeat == InitHeartbeat /\ [][NextHeartbeat]_vars

\* Retention under concurrency.  A parallel subscription s1 with maxAttempts
\* 1; while trim() runs statement by statement, a writer sends, s2 is created
\* from the earliest message, a consumer reserves and finalizes, and failed
\* messages are retried.
InitRetention == InitWith("s1" :> SubscriptionRow("parallel", "latest", 1, "linear", 0))

SendBegins == InsertBegin("w1", 1, NULL, NULL, NULL)

TrimBegins == \E retention \in Retentions : TrimBegin(retention)

NextRetention ==
  \/ SendBegins
  \/ InsertFanOuts
  \/ InsertCommits
  \/ SubscribeEarliest
  \/ SubscriptionBackfills
  \/ ReserveAlone
  \/ Return
  \/ Throw
  \/ Completes
  \/ Fails
  \/ Retries
  \/ TrimBegins
  \/ TrimEarliest
  \/ TrimLatest
  \/ TrimDelete

SpecRetention == InitRetention /\ [][NextRetention]_vars

\* The poll loop.  One consumer, constructed with autostart false, on a
\* subscription of either mode; start() and stop() are called at any moment,
\* messages are sent at any moment, handlers return or throw.
InitPoll ==
  \E mode \in Modes, value \in 1..MaxCount :
    /\ InitLifecycle("s1" :> SubscriptionRow(mode, "latest", 1, "linear", 0), 1)
    /\ concurrency = [c \in Consumers |-> Concurrency(Attached, value)]
    /\ started = [c \in Consumers |-> FALSE]

Starts == Start("c1")

Stops == Stop("c1")

StopsResolve == StopResolves("c1")

TimersFire == \E i \in DOMAIN loops["c1"] : TimerFires("c1", i)

NextPoll ==
  \/ Send
  \/ Starts
  \/ Stops
  \/ StopsResolve
  \/ TimersFire
  \/ ReservationsReturn
  \/ Return
  \/ Throw
  \/ ProcessCompletes
  \/ ProcessFails

SpecPoll == InitPoll /\ [][NextPoll]_vars

\* ------------------------------------------------------------------ claims

Processing(s) == {k \in RowsOf(s) : rows[k].status = "processing"}

HeldObjects == UNION {held[c] : c \in Consumers}

\* The message objects a step hands to consumer c: the objects of held'[c]
\* whose handler starts in this step.
Delivered(c) == {h \in held'[c] \ held[c] : h.phase = "running"}

\* The holders of row k: the message objects of k held by any consumer.
Holders(k) == {h \in HeldObjects : h.sub = k[1] /\ h.msg = k[2]}

\* C1: a sequential subscription has at most one subscription-message in
\* status 'processing' in every reachable state.
C1_SequentialExclusivity ==
  \A s \in DOMAIN subs : Sequential(s) => Cardinality(Processing(s)) <= 1

\* C2: concurrent getNextMessages calls never return the same message: the
\* rows two reservation transactions in flight have selected are disjoint,
\* and every row a call returns was 'waiting' (not 'processing' from another
\* reservation) and is held by no other consumer.
C2_NoDuplicateDelivery ==
  /\ [](\A c \in Consumers : \A d \in Consumers \ {c} :
          LockedRows(c) \cap LockedRows(d) = {})
  /\ [][\A c \in Consumers : \A h \in Delivered(c) :
          /\ rows[<<h.sub, h.msg>>].status = "waiting"
          /\ Holders(<<h.sub, h.msg>>) = {}]_vars

\* C2 witness: two reservation transactions are in flight at once and each
\* has selected rows, the second one a row that does not sort first.
C2_Witness ==
  \E c \in Consumers : \E d \in Consumers \ {c} :
    /\ LockedRows(c) # {}
    /\ LockedRows(d) # {}
    /\ \E k \in LockedRows(c) : \E j \in LockedRows(d) : Before(k[2], j[2])

\* C3: for every subscription and message, at most one complete() call sets
\* the row to 'completed'.
C3_CompleteAtMostOnce ==
  \A k \in DOMAIN completeCalls : completeCalls[k] <= 1

\* The handlers that are executing for subscription s.
Running(s) ==
  {ch \in Consumers \X UNION {held[c] : c \in Consumers} :
     ch[2] \in held[ch[1]] /\ ch[2].sub = s /\ ch[2].phase = "running"}

\* C4: on a sequential subscription at most one handler is executing at any
\* time, over all consumers.
C4_HandlersNeverOverlap ==
  \A s \in DOMAIN subs : Sequential(s) => Cardinality(Running(s)) <= 1

\* C5 as stated: every row has attempts <= max_attempts of its subscription.
C5_AttemptsAtMostMax ==
  \A k \in DOMAIN rows : rows[k].attempts <= subs[k[1]].max_attempts

\* C5, amended: attempts exceeds max_attempts by at most one for the stale
\* reopening of the row plus one per manual retry() of it; a row that was
\* never reopened by the stale detector nor retried has attempts <= max_attempts.
C5_AttemptsBound ==
  \A k \in DOMAIN rows :
    rows[k].attempts <= subs[k[1]].max_attempts
                        + (IF rows[k].stale_count > 0 THEN 1 ELSE 0)
                        + Count(k, retryCalls)

\* C5 witness: a row that was reopened by the stale detector and retried
\* manually has been reserved max_attempts + 2 times.
C5_Witness ==
  \E k \in DOMAIN rows :
    /\ rows[k].stale_count > 0
    /\ Count(k, retryCalls) = 1
    /\ rows[k].attempts = subs[k[1]].max_attempts + 2

\* The step sets row k, which was not 'failed', to 'failed'.
BecomesFailed(k) ==
  /\ k \in DOMAIN rows /\ k \in DOMAIN rows'
  /\ rows[k].status # "failed"
  /\ rows'[k].status = "failed"

\* The step is a fail() of a message object of row k.
FailStepOn(k, h) ==
  /\ h.sub = k[1] /\ h.msg = k[2]
  /\ \E c \in Consumers : Fail(c, h)

\* The step is a resetStaleMessages that finds row k stale.
StaleStepOn(k) == ResetStaleMessages /\ Stale(k)

\* C6 as stated: a row becomes 'failed' iff fail() is called with attempts =
\* max_attempts or the stale detector finds it with stale_count = 1; fail()
\* with attempts < max_attempts makes it 'waiting'.
C6_FailedIffExact ==
  [][\A k \in DOMAIN rows :
       /\ BecomesFailed(k) <=>
            \/ \E h \in HeldObjects :
                 /\ FailStepOn(k, h)
                 /\ h.attempts = subs[k[1]].max_attempts
                 /\ rows[k].status # "failed"
            \/ StaleStepOn(k) /\ rows[k].stale_count = 1
       /\ \A h \in HeldObjects :
            FailStepOn(k, h) /\ h.attempts < subs[k[1]].max_attempts
              => rows'[k].status = "waiting"]_vars

\* C6, amended: a row that is not 'failed' becomes 'failed' iff fail() is
\* called on a message object whose attempts >= max_attempts, or the stale
\* detector finds it stale with stale_count >= 1; fail() of a message object
\* with attempts < max_attempts makes the row 'waiting'.
C6_FailedIff ==
  [][\A k \in DOMAIN rows :
       /\ BecomesFailed(k) <=>
            \/ \E h \in HeldObjects :
                 /\ FailStepOn(k, h)
                 /\ h.attempts >= subs[k[1]].max_attempts
                 /\ rows[k].status # "failed"
            \/ StaleStepOn(k) /\ rows[k].stale_count >= 1
       /\ \A h \in HeldObjects :
            FailStepOn(k, h) /\ h.attempts < subs[k[1]].max_attempts
              => rows'[k].status = "waiting"]_vars

\* C6 witness: a row is 'failed' after a fail() with attempts > max_attempts
\* (it was retried manually) and was never stale.
C6_Witness ==
  \E k \in DOMAIN rows :
    /\ rows[k].status = "failed"
    /\ rows[k].stale_count = 0
    /\ rows[k].attempts > subs[k[1]].max_attempts

\* Message m has a row that is not 'completed'.
Unacknowledged(m) ==
  \E k \in DOMAIN rows : k[2] = m /\ rows[k].status # "completed"

\* C7: a trim() never deletes an unacknowledged message: every message with
\* a row in a status other than 'completed' in the state in which trim runs
\* still exists, with all its rows unchanged, after it.
C7_TrimKeepsUnacknowledged ==
  [][(\E retention \in Retentions : Trim(retention)) =>
       \A m \in DOMAIN messages :
         Unacknowledged(m) =>
           /\ m \in DOMAIN messages'
           /\ \A k \in DOMAIN rows :
                k[2] = m => k \in DOMAIN rows' /\ rows'[k] = rows[k]]_vars

\* C7 witness: trim has removed a message while a later message is
\* unacknowledged.
C7_Witness ==
  /\ \E m \in 1..(nextId - 1) : m \notin DOMAIN messages
  /\ \E m \in DOMAIN messages : Unacknowledged(m)

\* C8: every committed message has, for every subscription that existed when
\* its insert committed, a row with status 'waiting', attempts 0, stale_count
\* 0 and available_at equal to the message's deliver_at; the message never
\* has a row for some of those subscriptions but not for others.
C8_FanOutComplete ==
  \A m \in DOMAIN messages :
    /\ \A s \in atCommit[m] :
         /\ <<s, m>> \in DOMAIN rows
         /\ rows[<<s, m>>] = NewRow(messages[m].deliver_at)
    /\ \A s \in atCommit[m] : \A t \in atCommit[m] :
         <<s, m>> \in DOMAIN rows <=> <<t, m>> \in DOMAIN rows

\* C9: once the constructor of a subscription has finished, an 'earliest'
\* subscription has a row for every message that was in the topic at its
\* creation, a 'latest' subscription has rows only for messages committed
\* after its creation, and every subscription has a row for the messages
\* whose insert committed when it existed.
C9_StartPosition ==
  \A s \in DOMAIN subs :
    creating[s] \in {"ready", "failed"} =>
      /\ \A m \in DOMAIN messages : s \in atCommit[m] => <<s, m>> \in DOMAIN rows
      /\ subs[s].start_position = "latest" =>
           \A m \in DOMAIN messages : <<s, m>> \in DOMAIN rows => s \in atCommit[m]
      /\ subs[s].start_position = "earliest" =>
           \A m \in atCreation[s] \cap DOMAIN messages : <<s, m>> \in DOMAIN rows

\* ORDER BY key of the claim: the priority, no priority after every priority.
PriorityKey(m) ==
  IF messages[m].priority = NULL THEN MaxPriority + 1 ELSE messages[m].priority

SortsBefore(a, b) ==
  \/ PriorityKey(a) < PriorityKey(b)
  \/ PriorityKey(a) = PriorityKey(b) /\ a < b

\* C10: with no delays and no retries, the messages a getNextMessages call
\* returns are available rows, sort before every available row the call
\* leaves behind, and are returned in the order (priority ascending with no
\* priority last, id ascending); a sequential subscription returns one.
C10_ReservationOrder ==
  [][\A c \in Consumers :
       LET batch == Delivered(c)
           left(s) == Available(s) \ {h.msg : h \in batch}
       IN /\ \A h \in batch :
               /\ h.msg \in Available(h.sub)
               /\ \A m \in left(h.sub) : SortsBefore(h.msg, m)
               /\ \A g \in batch : g.idx < h.idx <=> SortsBefore(g.msg, h.msg)
               /\ Sequential(h.sub) => batch = {h}
          /\ {h.idx : h \in batch} = 1..Cardinality(batch)]_vars

\* C10 witness: a message sent later with a priority is being processed
\* while an earlier message without priority still waits for its first
\* reservation.
C10_Witness ==
  \E h \in HeldObjects : \E m \in Available(h.sub) :
    /\ m < h.msg
    /\ messages[m].priority = NULL
    /\ messages[h.msg].priority # NULL
    /\ rows[<<h.sub, m>>].attempts = 0
    /\ rows[<<h.sub, h.msg>>].status = "processing"

\* C11: on a sequential subscription the handler of a message is never
\* started while an earlier message of the same priority, fanned out to the
\* same subscription, has not reached 'completed' or 'failed'.
C11_SequentialStrictOrder ==
  [][\A c \in Consumers : \A h \in Delivered(c) :
       Sequential(h.sub) =>
         \A m \in DOMAIN messages :
           /\ m < h.msg
           /\ messages[m].priority = messages[h.msg].priority
           /\ <<h.sub, m>> \in DOMAIN rows
           => rows[<<h.sub, m>>].status \in {"completed", "failed"}]_vars

\* C12: 'completed' is terminal: a row that is 'completed' keeps that status
\* in every later step for as long as it exists.
C12_CompletedIsTerminal ==
  [][\A k \in DOMAIN rows :
       rows[k].status = "completed" /\ k \in DOMAIN rows'
         => rows'[k].status = "completed"]_vars

\* Row k is 'processing' and its last heartbeat is at least the stale timeout
\* old.
HeartbeatLapsed(k) ==
  /\ rows[k].status = "processing"
  /\ rows[k].last_heartbeat_at # NULL
  /\ now - rows[k].last_heartbeat_at >= StaleTimeout

\* C13: a resetStaleMessages step moves every 'processing' row whose heartbeat
\* has lapsed to 'waiting' when its stale_count is 0 and to 'failed'
\* otherwise, increments stale_count, clears last_heartbeat_at and changes
\* nothing else of the row; it leaves every other row unchanged.  In every
\* step stale_count never decreases and only the stale detector changes it,
\* so the detector reopens a row at most once: a step that raises
\* stale_count and leaves the row 'waiting' starts from stale_count 0.
C13_SecondChance ==
  [][\A k \in DOMAIN rows \cap DOMAIN rows' :
       /\ ResetStaleMessages =>
            IF HeartbeatLapsed(k)
            THEN rows'[k] = [rows[k] EXCEPT
                              !.status = IF rows[k].stale_count = 0 THEN "waiting" ELSE "failed",
                              !.stale_count = rows[k].stale_count + 1,
                              !.last_heartbeat_at = NULL]
            ELSE rows'[k] = rows[k]
       /\ rows'[k].stale_count >= rows[k].stale_count
       /\ rows'[k].stale_count # rows[k].stale_count => ResetStaleMessages
       /\ rows'[k].stale_count > rows[k].stale_count /\ rows'[k].status = "waiting"
            => rows[k].stale_count = 0]_vars

\* C13 witness: a row was found stale twice: reopened the first time,
\* 'failed' the second.
C13_Witness ==
  \E k \in DOMAIN rows : rows[k].stale_count = 2 /\ rows[k].status = "failed"

\* C14: the gate flag of a sequential subscription is true exactly when one
\* of its rows is 'processing'.
C14_GateFlagExact ==
  \A s \in DOMAIN subs :
    Sequential(s) => (subs[s].processing <=> Cardinality(Processing(s)) = 1)

\* No consumer holds a message object of subscription s: whoever raised the
\* gate has crashed.
Abandoned(s) == \A h \in HeldObjects : h.sub # s

\* C15: whenever the gate of a sequential subscription is raised and no
\* consumer is left to finalize, the gate is eventually lowered, and every
\* available message of the subscription is eventually reserved.
C15_GateRecovery ==
  \A s \in SubNames :
    /\ (Sequential(s) /\ subs[s].processing /\ Abandoned(s))
         ~> (Sequential(s) /\ ~subs[s].processing)
    /\ \A m \in 1..MaxMessages :
         (Sequential(s) /\ m \in Available(s)) ~> (m \notin Available(s))

\* C16: every row created by fan-out eventually reaches 'completed' or
\* 'failed' (or is deleted with its message): no row stays 'waiting' or
\* 'processing' forever.
C16_AtLeastOnce ==
  \A k \in SubNames \X (1..MaxMessages) :
    (k \in DOMAIN rows) ~> (k \notin DOMAIN rows \/ rows[k].status \in {"completed", "failed"})

\* Under SpecDelivery, where no message is removed, C16_AtLeastOnce holds; a
\* row abandoned in 'processing' is reopened by the stale detector, reserved
\* a second time and completed.
DeliveredAfterReopening ==
  \E k \in DOMAIN rows :
    /\ rows[k].status = "completed"
    /\ rows[k].stale_count = 1
    /\ rows[k].attempts = 2
    /\ Count(k, completeCalls) = 1

\* The step is a retry() of row k.
RetryStepOn(k) == Retry(k[1], k[2])

\* The step is a reservation that returns row k.
ReserveStepOn(k) ==
  /\ \E c \in Consumers : GetNextMessages(c, k[1], 1)
  /\ rows[k].status = "waiting" /\ rows'[k].status = "processing"

BackoffOffset(strategy, d, a) ==
  IF strategy = "linear" THEN d ELSE d * 2 ^ (a - 1)

\* C18: a fail() of an object with attempts < max_attempts makes the row
\* 'waiting' with available_at = failure time + retry_delay (linear) or
\* failure time + retry_delay * 2^(attempts-1) (exponential); a fail() with
\* attempts >= max_attempts makes it 'failed' with available_at NULL, which
\* happens at attempt number max_attempts.
C18_RetryBackoff ==
  [][\A k \in DOMAIN rows : \A h \in HeldObjects :
       FailStepOn(k, h) =>
         LET sub == subs[k[1]]
         IN /\ h.attempts >= 1
            /\ h.attempts < sub.max_attempts =>
                 /\ rows'[k].status = "waiting"
                 /\ rows'[k].available_at =
                      now + BackoffOffset(sub.retry_strategy, sub.retry_delay, h.attempts)
            /\ h.attempts >= sub.max_attempts =>
                 /\ rows'[k].status = "failed"
                 /\ rows'[k].available_at = NULL
                 /\ rows'[k].attempts = sub.max_attempts
    ]_vars

\* The second attempt of an exponential subscription with max_attempts 3 and
\* delay 1 has just failed: the row waits until two time units from now.
C18_Witness ==
  \E k \in DOMAIN rows :
    /\ subs[k[1]].retry_strategy = "exponential"
    /\ subs[k[1]].max_attempts = 3
    /\ subs[k[1]].retry_delay = 1
    /\ rows[k].status = "waiting"
    /\ rows[k].attempts = 2
    /\ rows[k].available_at = now + 2

\* The rows of subscription s whose message has the priority of m and an
\* earlier id.
EarlierPeers(s, m) ==
  {r \in 1..(m - 1) : /\ <<s, r>> \in DOMAIN rows
                      /\ r \in DOMAIN messages
                      /\ messages[r].priority = messages[m].priority}

\* Row k was put back by a failed attempt and its available_at has passed.
RetryDue(k) ==
  /\ rows[k].status = "waiting"
  /\ rows[k].attempts > 0
  /\ rows[k].available_at # NULL
  /\ rows[k].available_at <= now

\* C19: a reservation never returns a message while a row of the same
\* priority and an earlier id, put back by a failed attempt, is due for its
\* retry; and with retry delay 0 and nothing else in the hands of a consumer,
\* a message is reserved for the first time only when every earlier message
\* of its priority is 'completed', is 'failed', or is a delayed message not
\* yet delivered: the attempts of a message follow each other without a
\* first attempt of a later message in between.
C19_RetriesFirst ==
  [][\A c \in Consumers : \A h \in Delivered(c) :
       /\ \A r \in EarlierPeers(h.sub, h.msg) : ~RetryDue(<<h.sub, r>>)
       /\ (/\ subs[h.sub].retry_delay = 0
           /\ \A d \in Consumers : held[d] = {}
           /\ h.attempts = 1) =>
            \A r \in EarlierPeers(h.sub, h.msg) :
              LET row == rows[<<h.sub, r>>]
              IN \/ row.status \in {"completed", "failed"}
                 \/ /\ row.status = "waiting"
                    /\ row.attempts = 0
                    /\ row.available_at # NULL
                    /\ row.available_at > now
    ]_vars

\* A message is in its second attempt, reserved after its retry delay of one
\* time unit, while a later message of the same priority is available and
\* was never attempted.
C19_Witness ==
  \E h \in HeldObjects : \E m \in Available(h.sub) :
    /\ h.msg \in EarlierPeers(h.sub, m)
    /\ h.attempts = 2
    /\ subs[h.sub].retry_delay = 1
    /\ rows[<<h.sub, h.msg>>].status = "processing"
    /\ rows[<<h.sub, m>>].attempts = 0

\* The deliver_at of a send: the explicit deliverAt when there is one,
\* otherwise the time of the send plus deliverInMs when that is given and not 0.
ExpectedDeliverAt(deliverInMs, deliverAt) ==
  IF deliverAt # NULL THEN deliverAt
  ELSE IF deliverInMs \notin {NULL, 0} THEN now + deliverInMs
  ELSE NULL

\* Every row that was never reserved carries the deliver_at of its message,
\* and a waiting row whose available_at has come is one the reservation
\* query selects.
DeliverAtGates ==
  \A k \in DOMAIN rows :
    /\ (rows[k].attempts = 0 /\ k[2] \in DOMAIN messages) =>
         rows[k].available_at = messages[k[2]].deliver_at
    /\ (rows[k].status = "waiting" /\ rows[k].available_at # NULL
         /\ rows[k].available_at <= now) => k[2] \in Available(k[1])

\* A step of the delayed delivery: a send stores the deliver_at its options
\* give; a reservation returns no row whose available_at is in the future
\* and starts no first attempt before the deliver_at of the message; a
\* failed attempt with attempts < max_attempts schedules the retry from the
\* failure time and the retry delay alone.
DelayedStep ==
  /\ \A deliverInMs \in {NULL, 0, 1} : \A deliverAt \in {NULL, MaxTime} :
       InsertMessages(1, deliverInMs, deliverAt, NULL) =>
         messages'[nextId].deliver_at = ExpectedDeliverAt(deliverInMs, deliverAt)
  /\ \A c \in Consumers : \A h \in Delivered(c) :
       LET k == <<h.sub, h.msg>>
       IN /\ rows[k].available_at = NULL \/ rows[k].available_at <= now
          /\ h.attempts = 1 =>
               \/ messages[h.msg].deliver_at = NULL
               \/ messages[h.msg].deliver_at <= now
  /\ \A k \in DOMAIN rows : \A h \in HeldObjects :
       (FailStepOn(k, h) /\ h.attempts < subs[k[1]].max_attempts) =>
         rows'[k].available_at =
           now + BackoffOffset(subs[k[1]].retry_strategy, subs[k[1]].retry_delay, h.attempts)

\* C20: the available_at of a row is the deliver_at of its message, where an
\* explicit deliverAt wins over deliverInMs; a row whose available_at is in
\* the future is never returned by getNextMessages and is reservable from
\* the moment now >= available_at; and the retry of a delayed message is
\* scheduled from the failure time and the retry delay only.
C20_DelayedDelivery == []DeliverAtGates /\ [][DelayedStep]_vars

\* Where every row is created by the fan-out of a send (SpecRetry),
\* C20_DelayedDelivery holds; a message sent for delivery at MaxTime was
\* reserved then, failed one time unit later and waits for a retry whose
\* available_at differs from its deliver_at.
RetriedAfterDelay ==
  \E k \in DOMAIN rows :
    /\ k[2] \in DOMAIN messages
    /\ messages[k[2]].deliver_at = MaxTime
    /\ rows[k].status = "waiting"
    /\ rows[k].attempts = 1
    /\ rows[k].available_at # NULL
    /\ rows[k].available_at # messages[k[2]].deliver_at

\* C21: a scheduled message with repeats = k is materialized into at most k
\* messages, whatever the interleaving of the processScheduledMessages calls
\* of the processes and wherever their transactions fail.
C21_RepeatsBound ==
  \A name \in DOMAIN schedules :
    schedules[name].repeats # NULL => Count(name, fired) <= schedules[name].repeats

\* The scheduled message is due: its occurrence has come and its repeats are
\* not used up.
IsDue(row) ==
  /\ row.next_occurrence_at <= now
  /\ row.repeats = NULL \/ row.repeats_made < row.repeats

\* C22: processScheduledMessages changes a scheduled message only when it is
\* due; it then inserts exactly one message for it, adds one to repeats_made
\* and sets next_occurrence_at to the first occurrence of the cron after the
\* next_occurrence_at the row had, not after the time of processing.
C22_FiringAdvances ==
  [][\A p \in Processes :
       /\ SweepInsert(p) =>
            /\ Cardinality(DOMAIN messages') = Cardinality(DOMAIN messages) + 1
            /\ \A name \in sweeps'[p].inserted : fired'[name] = Count(name, fired) + 1
       /\ SweepCommit(p) =>
            \A name \in DOMAIN schedules :
              IF name \in DOMAIN sweeps[p].updates
              THEN /\ schedules'[name].repeats_made = schedules[name].repeats_made + 1
                   /\ schedules'[name].next_occurrence_at =
                        CronNext(schedules[name].cron, schedules[name].next_occurrence_at)
                   /\ IsDue(schedules[name])
              ELSE schedules'[name] = schedules[name]
    ]_vars

\* The acknowledged messages among ids: those with no row other than
\* 'completed' rows.
Acknowledged(ids) == {m \in ids : ~Unacknowledged(m)}

\* The messages of the topic after a trim() with the given retention.
AfterTrim(retention) == DOMAIN messages \ Removed(retention)

\* C23: with a finite maxMessagesRetention = k, at most k acknowledged
\* messages remain in the topic after trim(), in whatever state trim() is
\* called; with k = 0 none remains.
C23_RetentionCap ==
  \A retention \in 0..MaxRetention :
    Cardinality(Acknowledged(AfterTrim(retention))) <= retention

\* The n largest ids of S.
Largest(S, n) == {m \in S : Cardinality({x \in S : x > m}) < n}

\* The messages below the earliest unacknowledged message, all of them when
\* every message is acknowledged.
BelowEarliestUnacknowledged ==
  {m \in DOMAIN messages : \A u \in DOMAIN messages : Unacknowledged(u) => m < u}

\* What trim() keeps, in any state: at least min(k, number of acknowledged
\* messages) acknowledged messages, the most recent ones among them; and
\* nothing is removed when k is Infinity.
RetentionFloor ==
  /\ \A retention \in 0..MaxRetention :
       LET acked == Acknowledged(DOMAIN messages)
           n == IF Cardinality(acked) < retention THEN Cardinality(acked) ELSE retention
       IN /\ Cardinality(Acknowledged(AfterTrim(retention))) >= n
          /\ Largest(acked, n) \subseteq AfterTrim(retention)
  /\ AfterTrim(Infinity) = DOMAIN messages

\* A trim() step deletes exactly the messages below the earliest
\* unacknowledged message other than the k largest of them, with their rows,
\* and nothing else changes.
TrimStep ==
  \A retention \in Retentions :
    Trim(retention) =>
      /\ retention # Infinity
      /\ DOMAIN messages' =
           DOMAIN messages \ (BelowEarliestUnacknowledged
                                \ Largest(BelowEarliestUnacknowledged, retention))
      /\ DOMAIN rows' = {k \in DOMAIN rows : k[2] \in DOMAIN messages'}
      /\ \A k \in DOMAIN rows' : rows'[k] = rows[k]

\* C24: trim() with maxMessagesRetention = k keeps at least min(k, number
\* of acknowledged messages) acknowledged messages, the most recent by id;
\* it deletes exactly the messages below the earliest unacknowledged message
\* other than the k largest of them; and it removes nothing when k is
\* Infinity.
C24_RetentionFloor == []RetentionFloor /\ [][TrimStep]_vars

\* A trim() has removed the first message and kept the second one, which is
\* acknowledged by a 'completed' row.
C24_Witness ==
  /\ 1 \notin DOMAIN messages
  /\ 2 \in DOMAIN messages
  /\ \E k \in DOMAIN rows : k[2] = 2
  /\ ~Unacknowledged(2)

\* The handlers consumer c is running.
RunningHandlers(c) == {h \in held[c] : h.phase = "running"}

\* C25: at every instant a consumer runs at most as many handlers as its
\* concurrency, which is 1 on a sequential subscription whatever value was
\* configured.
C25_ConcurrencyBudget ==
  \A c \in Consumers :
    /\ Cardinality(RunningHandlers(c)) <= concurrency[c]
    /\ Sequential(Attached) => concurrency[c] = 1

\* The drain of consumer c ends in this step.
DrainEnds(c) == drains[c] > 0 /\ drains'[c] = 0

\* C26: a consumer has at most one drain in progress, and a drain ends only
\* in a step in which a reservation returns no message while the consumer
\* has no handler in flight and no other reservation call of the drain is
\* pending.
C26_IdleIsIdle ==
  /\ [](\A c \in Consumers : drains[c] <= 1)
  /\ [][\A c \in Consumers :
          DrainEnds(c) =>
            /\ held[c] = {} /\ held'[c] = {}
            /\ rows' = rows /\ subs' = subs
            /\ Pending(c) = 1 /\ Pending(c)' = 0]_vars

\* A drain has ended after the consumer, with concurrency 2, processed every
\* message: nothing is in flight or pending, and retried and first-time
\* messages were completed.
C26_Witness ==
  /\ drains["c1"] = 0
  /\ concurrency["c1"] = 2
  /\ held["c1"] = {}
  /\ Pending("c1") = 0
  /\ Available(Attached) = {}
  /\ \E k \in DOMAIN rows : rows[k].status = "completed" /\ rows[k].attempts = 2
  /\ \E k \in DOMAIN rows : rows[k].status = "completed" /\ rows[k].attempts = 1

\* C27: when every handler returns or throws and every database call is
\* answered, every drain started by consume() ends, for concurrency 1 and 2
\* and every interleaving of handler completions and reservation calls.
C27_DrainTerminates ==
  \A c \in Consumers : (drains[c] > 0) ~> (drains[c] = 0)

\* The drain has ended with every message sent and finalized, one of them
\* after its retries were exhausted.
C27_Witness ==
  /\ drains["c1"] = 0
  /\ nextId > MaxMessages
  /\ \A k \in RowsOf(Attached) : rows[k].status \in {"completed", "failed"}
  /\ \E k \in RowsOf(Attached) : rows[k].status = "failed"
  /\ \E k \in RowsOf(Attached) : rows[k].status = "completed"

\* The handler of h threw, whatever the value, and the consumer c lets go of
\* h in this step.
ThrownReleased(c, h) ==
  h \in held[c] /\ h.phase \in {"thrown", "rejected"} /\ h \notin held'[c]

\* The status the retry policy gives a message whose handler threw.
PolicyStatus(h) ==
  IF h.attempts < subs[h.sub].max_attempts THEN "waiting" ELSE "failed"

\* The step that finalizes a handler that threw fails the message per retry
\* policy, releases exactly its slot, keeps the drain in progress and calls
\* the reservation for the slots that are free.
ThrownStep ==
  \A c \in Consumers : \A h \in held[c] :
    ThrownReleased(c, h) =>
      LET free == concurrency[c] - Cardinality(held[c] \ {h})
      IN /\ rows'[<<h.sub, h.msg>>].status = PolicyStatus(h)
         /\ held'[c] = held[c] \ {h}
         /\ drains[c] = 1 /\ drains'[c] = 1
         /\ free > 0 => calls'[c][free] = calls[c][free] + 1

\* C28: a handler that throws never stops the consumer: the message is
\* failed per retry policy ('waiting' or 'failed'), the in-flight count is
\* released, the drain goes on reserving, and it reaches idle with no
\* message left available.
C28_ThrowKeepsDraining ==
  /\ [][ThrownStep]_vars
  /\ \A c \in Consumers :
       (\E h \in held[c] : h.phase \in {"thrown", "rejected"})
         ~> (drains[c] = 0 /\ held[c] = {} /\ Candidates(Attached, 1) = <<>>)

\* The drain of c is in progress with no reservation call pending and no
\* handler in flight: the state a database error leaves behind.
Stalled(c) == drains[c] > 0 /\ Pending(c) = 0 /\ held[c] = {}

\* C29: a database error raised by the reservation or by complete()/fail()
\* does not wedge the consumer: a new reservation attempt follows the error
\* and the drain still ends, so that waitIdle() and stop() resolve.
C29_ErrorDoesNotWedge ==
  \A c \in Consumers :
    /\ Stalled(c) ~> (Pending(c) > 0)
    /\ (drains[c] > 0) ~> (drains[c] = 0)

\* Nothing of the broker is using the database: no background operation is
\* pending, and no consumer has a drain in progress, a reservation call
\* pending or a handler in flight.
Quiet ==
  /\ \A op \in Operations : operations[op] = "none"
  /\ \A c \in Consumers : drains[c] = 0 /\ Pending(c) = 0 /\ held[c] = {}

\* C30: close() stops the loops, waits for every pending background
\* operation and every consumer drain, and then releases the pool, also when
\* a pending operation failed: close() never ends without releasing the
\* pool, and once the pool is released nothing of the broker is using the
\* database.
C30_CloseReleasesPool ==
  /\ closing.stage # "rejected"
  /\ closing.stage = "ended" => Quiet

\* C31: the Subscription object subscribe(name, opts) yields carries the id
\* and the configuration of the stored row keyed by (its topic, name), an
\* error is emitted only when the options differ from that row, and
\* subscribing to an existing (topic, name) inserts and changes no row,
\* whatever subscriptions of that name other topics have.
C31_SubscribeAdopts ==
  /\ [](handle # NoHandle =>
          /\ Keyed(handle.topic, handle.name) = {handle.id}
          /\ handle.config = registry[handle.id].config
          /\ handle.error <=> handle.options # registry[handle.id].config)
  /\ [][\A t \in Topics, name \in SubNames :
          (handle'.id # NULL /\ handle'.topic = t /\ handle'.name = name
             /\ Keyed(t, name) # {})
            => registry' = registry]_vars

\* The ids a step creates lie above every id that existed before.
IdsIncrease ==
  \A i \in DOMAIN messages' \ DOMAIN messages :
    /\ \A j \in DOMAIN messages : j < i
    /\ i < nextId'

\* A message is handed to a handler for the first time only after every
\* message with a smaller id has been handed to a handler.
HandedInOrder ==
  \A c \in Consumers : \A h \in Delivered(c) :
    h.attempts = 1 =>
      \A j \in DOMAIN messages :
        j < h.msg => <<h.sub, j>> \in DOMAIN rows /\ rows[<<h.sub, j>>].attempts >= 1

\* C32: sendBulk creates messages whose ids increase in array order, and a
\* sequential subscription without priorities or delays hands them to the
\* handler in that order.
C32_BulkOrder == [][IdsIncrease /\ HandedInOrder]_vars

\* A batch of three was sent at once, its first two messages were handled
\* and the third is in the hands of a consumer.
C32_Witness ==
  /\ DOMAIN messages = 0..MaxMessages
  /\ rows[<<"s1", 0>>].status = "completed"
  /\ rows[<<"s1", 1>>].status = "failed"
  /\ \E c \in Consumers : \E h \in held[c] : h.msg = MaxMessages /\ h.phase = "running"

\* The messages a step hands to consumer c from subscription s.
Got(c, s) == {h.msg : h \in {d \in Delivered(c) : d.sub = s}}

\* The row was 'waiting' and available before the step and is reserved by
\* it: 'processing', one more attempt, heartbeat at now, progress cleared,
\* nothing else changed.
ReservedBy(k) ==
  /\ rows[k].status = "waiting"
  /\ rows[k].available_at = NULL \/ rows[k].available_at <= now
  /\ rows'[k] = [status |-> "processing", attempts |-> rows[k].attempts + 1,
                 available_at |-> rows[k].available_at, last_heartbeat_at |-> now,
                 stale_count |-> rows[k].stale_count, progress |-> NULL]

\* The effect and the frame of the reservations of a step.
ReservationEffect ==
  \A c \in Consumers, s \in SubNames :
    /\ \A count \in 1..MaxCount :
         GetNextMessages(c, s, count) =>
           Cardinality(Got(c, s)) <= (IF Sequential(s) THEN 1 ELSE count)
    /\ Got(c, s) # {} =>
         /\ \A m \in Got(c, s) : ReservedBy(<<s, m>>)
         /\ DOMAIN rows' = DOMAIN rows
         /\ \A k \in DOMAIN rows : k \notin {s} \X Got(c, s) => rows'[k] = rows[k]
         /\ ~(Sequential(s) /\ subs[s].processing)

\* C33: getNextMessages(n) returns at most n rows (1 in sequential mode);
\* every returned row was 'waiting' and available and becomes 'processing'
\* with attempts + 1, last_heartbeat_at = now and progress cleared; every
\* other row, of this and of other subscriptions, is unchanged; with the
\* sequential gate raised nothing is returned or changed.
C33_ReservationEffect == [][ReservationEffect]_vars

\* A message is in its second attempt on "s1" with its progress cleared,
\* while its row of "s2" is being processed and keeps the progress written.
C33_Witness ==
  \E m \in DOMAIN messages :
    /\ rows[<<"s1", m>>].status = "processing"
    /\ rows[<<"s1", m>>].attempts = 2
    /\ rows[<<"s1", m>>].progress = NULL
    /\ rows[<<"s2", m>>].status = "processing"
    /\ rows[<<"s2", m>>].progress = 1

\* The message objects consumer c holds whose message was removed.
Orphans(c) == {h \in held[c] : <<h.sub, h.msg>> \notin DOMAIN rows}

\* Every row belongs to a message, and a step adds rows only for the
\* messages it adds: a removed message leaves no row and gets none back.
RemovedForGood ==
  /\ \A k \in DOMAIN rows' : k[2] \in DOMAIN messages'
  /\ \A k \in DOMAIN rows' \ DOMAIN rows : k[2] \notin DOMAIN messages

\* C34: removing a message while a consumer is processing it deletes the
\* message and its rows, the finalization of the running handler recreates
\* no row, the consumer reaches idle, and the sequential gate is lowered so
\* that the later messages are reserved.
C34_RemoveWhileProcessing ==
  /\ [][RemovedForGood]_vars
  /\ \A c \in Consumers :
       (Orphans(c) # {})
         ~> (drains[c] = 0 /\ held[c] = {} /\ ~subs[Attached].processing
             /\ Candidates(Attached, 1) = <<>>)

\* The handler of a removed message has thrown on a sequential subscription:
\* the gate is raised, its row is gone and a later message waits.
C34_Witness ==
  /\ Sequential(Attached)
  /\ subs[Attached].processing
  /\ \E h \in Orphans("c1") : h.phase = "thrown" /\ h.msg \notin DOMAIN messages
  /\ \E k \in RowsOf(Attached) : rows[k].status = "waiting"

\* C35: the insertion of the message and the update of the scheduled message
\* take effect together or not at all: whenever no processScheduledMessages
\* transaction is in flight, the messages materialized from a scheduled
\* message are as many as its repeats_made.
C35_SchedulerAtomicity ==
  (\A p \in Processes : sweeps[p] = Idle) =>
    \A name \in DOMAIN schedules : Count(name, fired) = schedules[name].repeats_made

\* schedule() on an existing name replaces every column it passes and keeps
\* repeats_made, and adds no row.
UpsertKeepsCount ==
  \A name \in DOMAIN schedules :
    \A cron \in CronPeriods, repeats \in {NULL, 1, 2}, priority \in {NULL, 1} :
      Schedule(name, cron, repeats, NULL, priority) =>
        /\ DOMAIN schedules' = DOMAIN schedules
        /\ schedules'[name] =
             [cron |-> cron, next_occurrence_at |-> CronNext(cron, now),
              deliver_at |-> NULL, deliver_in_ms |-> NULL, priority |-> priority,
              repeats |-> repeats, repeats_made |-> schedules[name].repeats_made]

\* A message is materialized only for a scheduled message whose repeats_made
\* is below the repeats it has now.
FiresBelowRepeats ==
  \A name \in DOMAIN schedules :
    (name \in DOMAIN fired' /\ fired'[name] > Count(name, fired)) =>
      schedules[name].repeats = NULL
        \/ schedules[name].repeats_made < schedules[name].repeats

\* C36: schedule() on a (topic, name) that has a scheduled message updates
\* cron, next_occurrence_at, the delivery options, priority and repeats of
\* the row and leaves repeats_made unchanged, so that the firings made count
\* against the new repeats; no second row is created.
C36_UpsertKeepsRepeatsMade == [][UpsertKeepsCount /\ FiresBelowRepeats]_vars

\* The scheduled message was changed after its first firing: it has priority
\* 1 and repeats 1, its one firing is counted and the message it fired has
\* no priority.
C36_Witness ==
  /\ "job" \in DOMAIN schedules
  /\ schedules["job"].priority = 1
  /\ schedules["job"].repeats = 1
  /\ schedules["job"].repeats_made = 1
  /\ Count("job", fired) = 1
  /\ \A m \in DOMAIN messages : messages[m].priority = NULL

\* Row k belongs to a message object of a living consumer: its handler or the
\* finalization after it is in flight and its heartbeat loop is running.
InFlight(k) ==
  \E c \in Consumers : \E h \in held[c] : <<h.sub, h.msg>> = k

\* C37: with a heartbeat interval shorter than the stale timeout,
\* resetStaleMessages never reopens or fails the row of a message whose
\* handler is running; it changes a row only when the row is 'processing'
\* and its last_heartbeat_at is at least the stale timeout old.
C37_HeartbeatsProtect ==
  [][ResetStaleMessagesAfter(LongTimeout) =>
       \A k \in DOMAIN rows :
         /\ InFlight(k) => rows'[k] = rows[k]
         /\ rows'[k] # rows[k] =>
              /\ rows[k].status = "processing"
              /\ rows[k].last_heartbeat_at # NULL
              /\ now - rows[k].last_heartbeat_at >= LongTimeout]_vars

\* The stale detector has reopened the row of a dead consumer while the
\* handler of another message was running with a heartbeat one unit old, and
\* left that row as it was.
C37_Witness ==
  \E k1 \in DOMAIN rows, k2 \in DOMAIN rows :
    /\ rows[k1].stale_count = 1
    /\ rows[k1].status = "waiting"
    /\ InFlight(k2)
    /\ rows[k2].status = "processing"
    /\ rows[k2].stale_count = 0
    /\ rows[k2].last_heartbeat_at = now - 1

\* C38: the creation of an 'earliest' subscription succeeds under every
\* interleaving with concurrent sends: its backfill never fails, and once the
\* creation and the sends have finished the subscription has a row for
\* every message of the topic (the primary key allows one at most).
C38_EarliestBackfill ==
  \A s \in DOMAIN subs :
    subs[s].start_position = "earliest" =>
      /\ creating[s] # "failed"
      /\ (creating[s] = "ready" /\ \A w \in Writers : writers[w] = Idle) =>
           \A m \in DOMAIN messages : <<s, m>> \in DOMAIN rows

\* Message m has a row that is not 'completed'.
Wanted(m) == \E k \in DOMAIN rows : k[2] = m /\ rows[k].status # "completed"

\* Message m is about to get a row from a subscription that exists: the
\* backfill of the subscription has not run yet.
Awaited(m) ==
  \E s \in DOMAIN subs : creating[s] = "backfill" /\ <<s, m>> \notin DOMAIN rows

\* C39: when trim() runs concurrently with the creation of a subscription,
\* a send, a fail() or a retry(), its DELETE removes no message that at that
\* moment has a row that is not 'completed' or is about to get a row from a
\* subscription that exists.
C39_TrimUnderConcurrency ==
  [][TrimDelete =>
       \A m \in DOMAIN messages \ DOMAIN messages' : ~Wanted(m) /\ ~Awaited(m)]_vars

\* A stop() call on c has resolved and start() was not called since the call
\* was made: no handler is in flight and no reservation is pending.
StoppedIsQuiet(c) ==
  stopCalls[c].resolved => held[c] = {} /\ Pending(c) = 0 /\ drains[c] = 0

\* While that is so no step reserves a message for c.
StoppedReservesNothing(c) ==
  stopCalls[c].resolved /\ stopCalls'[c].resolved => held'[c] \subseteq held[c]

\* C40: after stop() on a consumer resolves the consumer has no handler in
\* flight and its poll loop reserves nothing until start() is called again,
\* whenever stop() is called; at most one poll loop is active per consumer.
C40_StopIsFinal ==
  /\ [](\A c \in Consumers : StoppedIsQuiet(c) /\ Cardinality(ActiveLoops(c)) <= 1)
  /\ [][\A c \in Consumers : StoppedReservesNothing(c)]_vars

====
